---- MODULE Spec2Model ----
(***************************************************************************)
(* A model of Markdansi's live renderer (src/src/live.ts): the engine that *)
(* re-renders a whole buffer and redraws it in place on a terminal.        *)
(*                                                                         *)
(* Strings are sequences of code units, each unit a TLA+ string: "a", "b"  *)
(* are ordinary width-1 characters, "\n" and "\r" the line breaks, "ESC"   *)
(* is U+001B, "BEL" is U+0007, "WIDE" a width-2 character and "ZW" a       *)
(* zero-width mark.  The bytes the engine writes are sequences of tokens:  *)
(* one token per control sequence of live.ts:59-68 and one per code unit   *)
(* of row text.                                                            *)
(***************************************************************************)
EXTENDS Integers, Sequences, FiniteSets, TLC

\* ------------------------------------------------------------------ bounds
MaxLen == 3         \* longest renderFrame output, in code units
Width == 2          \* the terminal's width option, in columns
MaxMaxRows == 2     \* largest maxRows option
MaxTailRows == 2    \* largest tailRows option

\* The code units renderFrame may produce in the engine's specification.
Chars == {"a", "b", "\n"}

RECURSIVE SeqsUpTo(_, _)
SeqsUpTo(S, n) ==
    IF n = 0 THEN {<<>>}
    ELSE LET shorter == SeqsUpTo(S, n - 1)
         IN  shorter \cup {Append(s, c) : s \in {t \in shorter : Len(t) = n - 1}, c \in S}

Texts == SeqsUpTo(Chars, MaxLen)

\* ------------------------------------------------------------ JS strings
Max(a, b) == IF a >= b THEN a ELSE b
Min(a, b) == IF a <= b THEN a ELSE b

\* s.slice(from) with a 0-based index, 0 <= from
SliceFrom(s, from) == SubSeq(s, from + 1, Len(s))

\* s.startsWith(p)
StartsWith(s, p) == Len(p) <= Len(s) /\ SubSeq(s, 1, Len(p)) = p

\* s.endsWith("\n")
EndsWithNewline(s) == Len(s) > 0 /\ s[Len(s)] = "\n"

\* s.split("\n"): the segments between line feeds; "" splits to [""]
RECURSIVE SplitFrom(_, _, _)
SplitFrom(s, i, cur) ==
    IF i > Len(s) THEN <<cur>>
    ELSE IF s[i] = "\n" THEN <<cur>> \o SplitFrom(s, i + 1, <<>>)
    ELSE SplitFrom(s, i + 1, Append(cur, s[i]))

Split(s) == SplitFrom(s, 1, <<>>)

\* `if (lines.length > 0 && lines.at(-1) === "") lines.pop()`
PopTrailingEmpty(lines) ==
    IF Len(lines) > 0 /\ lines[Len(lines)] = <<>>
    THEN SubSeq(lines, 1, Len(lines) - 1)
    ELSE lines

\* lines.slice(-n) for n > 0
LastN(lines, n) == SubSeq(lines, Max(1, Len(lines) - n + 1), Len(lines))

\* ------------------------------------------------------ width & tokenizer
\* c >= "@" && c <= "~": the code units of the alphabet in U+0040..U+007E
FinalBytes == {"a", "b", "m", "h", "l", "A", "B", "H", "J", "[", "]", "\\"}

IsFinalByte(c) == c \in FinalBytes

\* string-width of one code point: control characters and zero-width marks
\* count 0, wide characters 2, everything else 1
StringWidth(ch) ==
    IF ch = "WIDE" THEN 2
    ELSE IF ch \in {"ZW", "ESC", "BEL", "\r", "\n"} THEN 0
    ELSE 1

\* the loop of a CSI sequence: the index after the first final byte at or
\* after i, or past the end of the input (indices are 1-based here)
RECURSIVE CsiEnd(_, _)
CsiEnd(input, i) ==
    IF i > Len(input) THEN i
    ELSE IF IsFinalByte(input[i]) THEN i + 1
    ELSE CsiEnd(input, i + 1)

\* a faulty variant: the BEL that ends an OSC sequence is left unconsumed
RECURSIVE OscEnd_KeepsBel(_, _)
OscEnd_KeepsBel(input, i) ==
    IF i > Len(input) THEN i
    ELSE IF input[i] = "BEL" THEN i
    ELSE IF input[i] = "ESC" /\ i + 1 <= Len(input) /\ input[i + 1] = "\\" THEN i + 2
    ELSE OscEnd_KeepsBel(input, i + 1)

\* the loop of an OSC sequence: ends after BEL or after ESC \
RECURSIVE OscEnd(_, _)
OscEnd(input, i) ==
    IF i > Len(input) THEN i
    ELSE IF input[i] = "BEL" THEN i + 1
    ELSE IF input[i] = "ESC" /\ i + 1 <= Len(input) /\ input[i + 1] = "\\" THEN i + 2
    ELSE OscEnd(input, i + 1)

\* extractAnsiToken(input, index): isAnsi = FALSE stands for the null result
ExtractAnsiToken(input, index) ==
    IF input[index] # "ESC"
    THEN [isAnsi |-> FALSE, token |-> <<>>, nextIndex |-> index]
    ELSE IF index + 1 <= Len(input) /\ input[index + 1] = "["
    THEN LET i == CsiEnd(input, index + 2)
         IN  [isAnsi |-> TRUE, token |-> SubSeq(input, index, i - 1), nextIndex |-> i]
    ELSE IF index + 1 <= Len(input) /\ input[index + 1] = "]"
    THEN LET i == OscEnd(input, index + 2)
         IN  [isAnsi |-> TRUE, token |-> SubSeq(input, index, i - 1), nextIndex |-> i]
    ELSE IF index + 1 <= Len(input)
    THEN [isAnsi |-> TRUE, token |-> SubSeq(input, index, index + 1), nextIndex |-> index + 2]
    ELSE [isAnsi |-> TRUE, token |-> <<input[index]>>, nextIndex |-> index + 1]

\* body.split(";")
RECURSIVE SplitCodes(_, _, _)
SplitCodes(s, i, cur) ==
    IF i > Len(s) THEN <<cur>>
    ELSE IF s[i] = ";" THEN <<cur>> \o SplitCodes(s, i + 1, <<>>)
    ELSE SplitCodes(s, i + 1, Append(cur, s[i]))

\* a faulty variant: a reset code empties the style whatever else is set
UpdateSgrState_ClearsOnAnyReset(current, sequence) ==
    IF ~(Len(sequence) >= 2 /\ sequence[1] = "ESC" /\ sequence[2] = "["
         /\ sequence[Len(sequence)] = "m")
    THEN current
    ELSE LET body == SubSeq(sequence, 3, Len(sequence) - 1)
             codes == SplitCodes(body, 1, <<>>)
         IN  IF Len(body) = 0 \/ (\E k \in 1..Len(codes) : codes[k] = <<"0">>)
             THEN <<>>
             ELSE current \o sequence

\* updateSgrState(current, sequence)
UpdateSgrState(current, sequence) ==
    IF ~(Len(sequence) >= 2 /\ sequence[1] = "ESC" /\ sequence[2] = "["
         /\ sequence[Len(sequence)] = "m")
    THEN current
    ELSE LET body == SubSeq(sequence, 3, Len(sequence) - 1)
             codes == SplitCodes(body, 1, <<>>)
             hasReset == \E k \in 1..Len(codes) : codes[k] = <<"0">>
             hasNonReset == \E k \in 1..Len(codes) : codes[k] # <<"0">>
         IN  IF Len(body) = 0 THEN <<>>
             ELSE IF hasReset THEN (IF hasNonReset THEN sequence ELSE <<>>)
             ELSE current \o sequence

\* the loop of splitLineToRows, from index i with the row under construction
\* `current`, its width `currentWidth` and the rows pushed so far
RECURSIVE SplitLineLoop(_, _, _, _, _, _, _)
SplitLineLoop(line, width, i, current, currentWidth, activeSgr, rows) ==
    IF i > Len(line)
    THEN [rows |-> Append(rows, current), activeSgr |-> activeSgr]
    ELSE LET ansi == ExtractAnsiToken(line, i)
         IN  IF ansi.isAnsi
             THEN SplitLineLoop(line, width, ansi.nextIndex, current \o ansi.token,
                                currentWidth, UpdateSgrState(activeSgr, ansi.token), rows)
             ELSE LET ch == line[i]
                      w == StringWidth(ch)
                      wrap == currentWidth + w > width /\ currentWidth > 0
                  IN  SplitLineLoop(line, width, i + 1,
                                    (IF wrap THEN activeSgr ELSE current) \o <<ch>>,
                                    (IF wrap THEN 0 ELSE currentWidth) + w,
                                    activeSgr,
                                    IF wrap THEN Append(rows, current) ELSE rows)

\* splitLineToRows(line, activeSgr)
SplitLineToRows(line, activeSgr, width) ==
    IF width <= 0 THEN [rows |-> <<activeSgr \o line>>, activeSgr |-> activeSgr]
    ELSE SplitLineLoop(line, width, 1, activeSgr, 0, activeSgr, <<>>)

RECURSIVE SplitLinesFrom(_, _, _, _)
SplitLinesFrom(lines, k, activeSgr, width) ==
    IF k > Len(lines) THEN <<>>
    ELSE LET result == SplitLineToRows(lines[k], activeSgr, width)
         IN  result.rows \o SplitLinesFrom(lines, k + 1, result.activeSgr, width)

\* splitToRows(text)
SplitToRows(text, width) ==
    LET lines == PopTrailingEmpty(Split(text))
        rows == SplitLinesFrom(lines, 1, <<>>, width)
    IN  IF Len(rows) = 0 THEN << <<>> >> ELSE rows

\* visibleWidth(line)
RECURSIVE VisibleWidthFrom(_, _)
VisibleWidthFrom(line, i) ==
    IF i > Len(line) THEN 0
    ELSE LET ansi == ExtractAnsiToken(line, i)
         IN  IF ansi.isAnsi THEN VisibleWidthFrom(line, ansi.nextIndex)
             ELSE StringWidth(line[i]) + VisibleWidthFrom(line, i + 1)

VisibleWidth(line) == VisibleWidthFrom(line, 1)

\* Math.ceil(a / b) for a >= 0, b > 0
CeilDiv(a, b) == (a + b - 1) \div b

\* a faulty variant: the quotient rounded down and one added
LineRowCount_FloorPlusOne(line, width) ==
    IF width <= 0 THEN 1
    ELSE Max(1, (Max(0, VisibleWidth(line)) \div width) + 1)

\* lineRowCount(line)
LineRowCount(line, width) ==
    IF width <= 0 THEN 1
    ELSE Max(1, CeilDiv(Max(0, VisibleWidth(line)), width))

\* measureLines(lines)
MeasureLines(lines, width) == [k \in 1..Len(lines) |-> LineRowCount(lines[k], width)]

\* sumRows(heights, endExclusive): the heights of the first `end` lines
RECURSIVE SumRows(_, _)
SumRows(heights, end) ==
    IF end <= 0 THEN 0
    ELSE SumRows(heights, end - 1) + (IF end <= Len(heights) THEN heights[end] ELSE 0)

\* ------------------------------------------------------- written bytes
\* One token per control sequence; row text is one CH token per code unit.
Ctl(kind) == [k |-> kind, n |-> 0, c |-> ""]
Ch(unit) == [k |-> "CH", n |-> 0, c |-> unit]

BSU == Ctl("BSU")                    \* ESC [ ? 2026 h
ESU == Ctl("ESU")                    \* ESC [ ? 2026 l
HIDE_CURSOR == Ctl("HIDE")           \* ESC [ ? 25 l
SHOW_CURSOR == Ctl("SHOW")           \* ESC [ ? 25 h
CLEAR_TO_END == Ctl("ED0")           \* ESC [ 0 J
CR == Ctl("CR")                      \* \r
LF == Ctl("LF")                      \* \n
\* ESC [ 3 J, ESC [ 2 J, ESC [ H
CLEAR_SCROLLBACK == <<Ctl("ED3"), Ctl("ED2"), Ctl("HOME")>>

\* cursorUp(lines)
CursorUp(lines) == IF lines <= 0 THEN <<>> ELSE <<[k |-> "UP", n |-> lines, c |-> ""]>>

\* `\u001b[${rowDiff}B`
CursorDown(lines) == <<[k |-> "DOWN", n |-> lines, c |-> ""]>>

\* the bytes of a piece of text: its line breaks are the CR and LF bytes
TextBytes(text) ==
    [i \in 1..Len(text) |->
        IF text[i] = "\n" THEN LF ELSE IF text[i] = "\r" THEN CR ELSE Ch(text[i])]

\* appended.replace(/\r?\n/g, "\r\n")
RECURSIVE NormalizeFrom(_, _)
NormalizeFrom(s, i) ==
    IF i > Len(s) THEN <<>>
    ELSE IF s[i] = "\r" /\ i + 1 <= Len(s) /\ s[i + 1] = "\n"
    THEN <<"\r", "\n">> \o NormalizeFrom(s, i + 2)
    ELSE IF s[i] = "\n" THEN <<"\r", "\n">> \o NormalizeFrom(s, i + 1)
    ELSE <<s[i]>> \o NormalizeFrom(s, i + 1)

\* a faulty variant: the suffix written with its bare line feeds
NormalizeCrLf_Identity(appended) == appended

NormalizeCrLf(appended) == NormalizeFrom(appended, 1)

\* the row loop of a redraw: "\r" + line + "\r\n" for the lines from the
\* 0-based index `from` on
RECURSIVE RowBytes(_, _)
RowBytes(lines, from) ==
    IF from >= Len(lines) THEN <<>>
    ELSE <<CR>> \o TextBytes(lines[from + 1]) \o <<CR, LF>> \o RowBytes(lines, from + 1)

\* ------------------------------------------------------------- options
\* The options after the normalisation of createLiveRenderer: width is a
\* positive integer, maxRows and tailRows are positive integers or 0 for the
\* null of an option that is absent or not positive.
Options ==
    {o \in [synchronizedOutput : BOOLEAN, hideCursor : BOOLEAN, width : {Width},
             maxRows : 0..MaxMaxRows, tailRows : 0..MaxTailRows,
             appendWhenPossible : BOOLEAN, clearOnOverflow : BOOLEAN,
             clearScrollbackOnOverflow : BOOLEAN] :
        \* the clear options are read on overflow only; without maxRows they
        \* keep their defaults
        o.maxRows = 0 => (o.clearOnOverflow /\ ~o.clearScrollbackOnOverflow)}

\* `options.appendWhenPossible === true && !tailRows`
AppendWhenPossible(o) == o.appendWhenPossible /\ o.tailRows = 0

\* renderFrame is the caller's pure callback; the repository's tests inject
\* the identity
RenderFrame(input) == input

\* ------------------------------------------------------------- the engine
InitialState ==
    [previousLines |-> <<>>, previousLineHeights |-> <<>>, cursorRow |-> 0,
     cursorHidden |-> FALSE, overflowed |-> FALSE, overflowNotified |-> FALSE,
     previousRenderedRaw |-> <<>>]

\* what one call did: the state it left, the chunks it wrote (one per call of
\* the write sink), the arguments it passed to onOverflow, and the path taken
Outcome(s, wr, calls, p) == [st |-> s, writes |-> wr, notified |-> calls, path |-> p]

\* a faulty variant: the test for tail mode inverted
Silenced_Inverted(o, s) == s.overflowed /\ o.tailRows # 0

\* `if (overflowed && !tailRows) return`
Silenced(o, s) == s.overflowed /\ o.tailRows = 0

\* a faulty variant: the rendered text kept as renderFrame returned it
Rendered_AsReturned(renderedRaw) == renderedRaw

\* renderedRaw with a trailing newline
Rendered(renderedRaw) ==
    IF EndsWithNewline(renderedRaw) THEN renderedRaw ELSE Append(renderedRaw, "\n")

\* rawLines: the logical lines of the rendered text, at least one
RawLines(rendered) ==
    LET lines == PopTrailingEmpty(Split(rendered))
    IN  IF Len(lines) = 0 THEN << <<>> >> ELSE lines

\* nextLines: the raw lines, or in tail mode the last tailRows physical rows
NextLines(o, rendered, rawLines) ==
    LET renderLines == IF o.tailRows # 0 THEN SplitToRows(rendered, o.width) ELSE rawLines
    IN  IF o.tailRows # 0 /\ Len(renderLines) > o.tailRows
        THEN LastN(renderLines, o.tailRows)
        ELSE renderLines

\* nextHeights
NextHeights(o, nextLines, rawHeights) ==
    IF o.tailRows # 0 THEN [k \in 1..Len(nextLines) |-> 1] ELSE rawHeights

\* nextRows
NextRows(o, nextLines, totalRows) ==
    IF o.tailRows # 0 THEN Len(nextLines) ELSE totalRows

\* the condition of the append path
AppendApplies(o, s, rendered) ==
    /\ AppendWhenPossible(o)
    /\ s.previousRenderedRaw # <<>>
    /\ StartsWith(rendered, s.previousRenderedRaw)

\* a faulty variant: the cursor-hidden flag not consulted
HidePrefix_Always(o, s) == IF o.hideCursor THEN <<HIDE_CURSOR>> ELSE <<>>

\* `if (hideCursor && !cursorHidden) frame += HIDE_CURSOR`
HidePrefix(o, s) == IF o.hideCursor /\ ~s.cursorHidden THEN <<HIDE_CURSOR>> ELSE <<>>

\* a faulty variant: the begin marker written whatever the option says
Begin_Always(o) == <<BSU>>

Begin(o) == IF o.synchronizedOutput THEN <<BSU>> ELSE <<>>
End(o) == IF o.synchronizedOutput THEN <<ESU>> ELSE <<>>

\* a faulty variant: the full height measured in tail mode too
OverflowRows_Total(o, nextRows, totalRows) == totalRows

\* overflowRows
OverflowRows(o, nextRows, totalRows) == IF o.tailRows # 0 THEN nextRows ELSE totalRows

\* `maxRows && overflowRows > maxRows && !overflowed`
OverflowDetected(o, s, overflowRows) ==
    o.maxRows # 0 /\ overflowRows > o.maxRows /\ ~s.overflowed

\* `if (!overflowNotified) options.onOverflow?.(...)`
OverflowCalls(o, s, overflowRows) ==
    IF ~s.overflowNotified THEN <<[rows |-> overflowRows, maxRows |-> o.maxRows]>> ELSE <<>>

\* a faulty variant: clearOnOverflow consulted first
ClearMode_ScreenFirst(o) ==
    IF o.clearOnOverflow THEN "screen"
    ELSE IF o.clearScrollbackOnOverflow THEN "scrollback"
    ELSE "none"

\* clearMode on overflow
ClearMode(o) ==
    IF o.clearScrollbackOnOverflow THEN "scrollback"
    ELSE IF o.clearOnOverflow THEN "screen"
    ELSE "none"

\* a faulty variant: the cursor moved up one row too many
HomeAndClear_OffByOne(cursorRow) ==
    CursorUp(cursorRow + 1) \o <<CR, CLEAR_TO_END>>

\* `cursorRow > 0 ? cursorUp(cursorRow) + "\r" : "\r"`, then CLEAR_TO_END
HomeAndClear(cursorRow) ==
    (IF cursorRow > 0 THEN CursorUp(cursorRow) \o <<CR>> ELSE <<CR>>) \o <<CLEAR_TO_END>>

\* the differ: the 0-based index of the first line that differs, or -1
RECURSIVE FirstChangedFrom(_, _, _)
FirstChangedFrom(previousLines, nextLines, i) ==
    IF i >= Max(Len(previousLines), Len(nextLines)) THEN -1
    ELSE LET oldLine == IF i < Len(previousLines) THEN previousLines[i + 1] ELSE <<>>
             newLine == IF i < Len(nextLines) THEN nextLines[i + 1] ELSE <<>>
         IN  IF oldLine # newLine THEN i ELSE FirstChangedFrom(previousLines, nextLines, i + 1)

FirstChanged(previousLines, nextLines) == FirstChangedFrom(previousLines, nextLines, 0)

\* a faulty variant: the viewport is not consulted
AboveViewport_Never(o, s, firstChanged) == FALSE

\* `firstChangedRow < viewportTop` when maxRows is set
AboveViewport(o, s, firstChanged) ==
    /\ o.maxRows # 0
    /\ SumRows(s.previousLineHeights, firstChanged) < Max(0, s.cursorRow - o.maxRows)

\* a faulty variant: the cursor moved to the top of the frame
MoveToRow_FromTop(firstChangedRow, cursorRow) == CursorUp(cursorRow)

\* the cursor movement of a partial redraw
MoveToRow(firstChangedRow, cursorRow) ==
    LET rowDiff == firstChangedRow - cursorRow
    IN  IF rowDiff > 0 THEN CursorDown(rowDiff)
        ELSE IF rowDiff < 0 THEN CursorUp(-rowDiff)
        ELSE <<>>

\* a faulty variant: the append path does not return, and the full repaint
\* runs after it
AppendPath_FallsThrough(o, s, rendered, rawLines, rawHeights, totalRows, nextLines, nextHeights, nextRows) ==
    LET appended == SliceFrom(rendered, Len(s.previousRenderedRaw))
        frame == HidePrefix(o, s) \o Begin(o) \o TextBytes(NormalizeCrLf(appended)) \o End(o)
        hidden == [s EXCEPT !.cursorHidden = IF o.hideCursor THEN TRUE ELSE @]
        repaint == HidePrefix(o, hidden) \o Begin(o) \o HomeAndClear(totalRows)
                   \o RowBytes(nextLines, 0) \o End(o)
    IN  Outcome([hidden EXCEPT !.previousRenderedRaw = rendered,
                               !.previousLines = nextLines,
                               !.previousLineHeights = nextHeights,
                               !.cursorRow = nextRows],
                <<frame, repaint>>, <<>>, "append")

\* the append path: the suffix only, then the whole new text is retained
AppendPath(o, s, rendered, rawLines, rawHeights, totalRows, nextLines, nextHeights, nextRows) ==
    LET appended == SliceFrom(rendered, Len(s.previousRenderedRaw))
        wrote == Len(appended) > 0
        frame == HidePrefix(o, s) \o Begin(o) \o TextBytes(NormalizeCrLf(appended)) \o End(o)
        tail == o.tailRows # 0
    IN  Outcome([s EXCEPT !.cursorHidden = IF wrote /\ o.hideCursor THEN TRUE ELSE @,
                          !.previousRenderedRaw = rendered,
                          !.previousLines = IF tail THEN nextLines ELSE rawLines,
                          !.previousLineHeights = IF tail THEN nextHeights ELSE rawHeights,
                          !.cursorRow = IF tail THEN nextRows ELSE totalRows],
                IF wrote THEN <<frame>> ELSE <<>>, <<>>, "append")

\* the overflow transition outside tail mode: clear as configured, drop the
\* retained frame; `s` already carries the latch
OverflowClear(o, s, calls) ==
    LET clearMode == ClearMode(o)
        frame == HidePrefix(o, s) \o Begin(o)
                 \o (IF clearMode = "scrollback" THEN CLEAR_SCROLLBACK
                     ELSE IF clearMode = "screen" THEN HomeAndClear(s.cursorRow)
                     ELSE <<>>)
                 \o End(o)
    IN  Outcome([s EXCEPT !.cursorHidden = IF o.hideCursor THEN TRUE ELSE @,
                          !.previousLines = <<>>,
                          !.previousLineHeights = <<>>,
                          !.cursorRow = 0],
                IF frame # <<>> THEN <<frame>> ELSE <<>>, calls, "overflow")

\* a faulty variant: the retained lines not replaced
Redrawn_KeepsLines(o, s, rendered, nextLines, nextHeights, nextRows) ==
    [s EXCEPT !.cursorHidden = IF o.hideCursor THEN TRUE ELSE @,
              !.cursorRow = nextRows,
              !.previousLineHeights = nextHeights,
              !.previousRenderedRaw = rendered]

\* a faulty variant: cursorRow counts lines, not rows
Redrawn_CountsLines(o, s, rendered, nextLines, nextHeights, nextRows) ==
    [s EXCEPT !.cursorHidden = IF o.hideCursor THEN TRUE ELSE @,
              !.cursorRow = Len(nextLines),
              !.previousLines = nextLines,
              !.previousLineHeights = nextHeights,
              !.previousRenderedRaw = rendered]

\* a faulty variant: a redraw starts afresh and drops the overflow latch
Redrawn_DropsLatch(o, s, rendered, nextLines, nextHeights, nextRows) ==
    [s EXCEPT !.cursorHidden = IF o.hideCursor THEN TRUE ELSE @,
              !.cursorRow = nextRows,
              !.previousLines = nextLines,
              !.previousLineHeights = nextHeights,
              !.previousRenderedRaw = rendered,
              !.overflowed = FALSE]

\* the state every redraw leaves
Redrawn(o, s, rendered, nextLines, nextHeights, nextRows) ==
    [s EXCEPT !.cursorHidden = IF o.hideCursor THEN TRUE ELSE @,
              !.cursorRow = nextRows,
              !.previousLines = nextLines,
              !.previousLineHeights = nextHeights,
              !.previousRenderedRaw = rendered]

\* the partial redraw from the first changed line
PartialRedraw(o, s, calls, firstChanged, rendered, nextLines, nextHeights, nextRows) ==
    LET firstChangedRow == SumRows(s.previousLineHeights, firstChanged)
        frame == HidePrefix(o, s) \o Begin(o)
                 \o MoveToRow(firstChangedRow, s.cursorRow)
                 \o <<CR, CLEAR_TO_END>>
                 \o RowBytes(nextLines, firstChanged)
                 \o End(o)
    IN  Outcome(Redrawn(o, s, rendered, nextLines, nextHeights, nextRows),
                <<frame>>, calls, "partial")

\* the full repaint
FullRepaint(o, s, calls, clearMode, rendered, nextLines, nextHeights, nextRows) ==
    LET frame == HidePrefix(o, s) \o Begin(o)
                 \o (IF clearMode = "scrollback" THEN CLEAR_SCROLLBACK
                     ELSE HomeAndClear(s.cursorRow))
                 \o RowBytes(nextLines, 0)
                 \o End(o)
    IN  Outcome(Redrawn(o, s, rendered, nextLines, nextHeights, nextRows),
                <<frame>>, calls, "full")

\* a faulty variant: the early return forgets the previous rendered text
NoChange_Forgets(s, calls) ==
    Outcome([s EXCEPT !.previousRenderedRaw = <<>>], <<>>, calls, "noop")

\* `if (firstChanged === -1) return`
NoChange(s, calls) == Outcome(s, <<>>, calls, "noop")

\* render(input), from state s under options o
RenderCall(o, s, input) ==
    IF Silenced(o, s) THEN Outcome(s, <<>>, <<>>, "silent")
    ELSE
    LET rendered == Rendered(RenderFrame(input))
        rawLines == RawLines(rendered)
        rawHeights == MeasureLines(rawLines, o.width)
        totalRows == SumRows(rawHeights, Len(rawHeights))
        nextLines == NextLines(o, rendered, rawLines)
        nextHeights == NextHeights(o, nextLines, rawHeights)
        nextRows == NextRows(o, nextLines, totalRows)
    IN  IF AppendApplies(o, s, rendered)
        THEN AppendPath(o, s, rendered, rawLines, rawHeights, totalRows,
                        nextLines, nextHeights, nextRows)
        ELSE
        LET overflowRows == OverflowRows(o, nextRows, totalRows)
            latch == OverflowDetected(o, s, overflowRows)
            calls == IF latch THEN OverflowCalls(o, s, overflowRows) ELSE <<>>
            clearMode == IF latch THEN ClearMode(o) ELSE "none"
            latched == IF latch
                       THEN [s EXCEPT !.overflowed = TRUE, !.overflowNotified = TRUE]
                       ELSE s
            forceFullRender == Len(s.previousLines) = 0
                               \/ (latch /\ clearMode # "none")
            firstChanged == FirstChanged(s.previousLines, nextLines)
        IN  IF latch /\ o.tailRows = 0 THEN OverflowClear(o, latched, calls)
            ELSE IF forceFullRender
            THEN FullRepaint(o, latched, calls, clearMode, rendered,
                             nextLines, nextHeights, nextRows)
            ELSE IF firstChanged = -1 THEN NoChange(latched, calls)
            ELSE IF AboveViewport(o, s, firstChanged)
            THEN FullRepaint(o, latched, calls, clearMode, rendered,
                             nextLines, nextHeights, nextRows)
            ELSE PartialRedraw(o, latched, calls, firstChanged, rendered,
                               nextLines, nextHeights, nextRows)

\* a faulty variant: the cursor-hidden flag not consulted on finish
ShowCursor_Always(o, s) == IF o.hideCursor THEN << <<SHOW_CURSOR>> >> ELSE <<>>

\* `if (hideCursor && cursorHidden) options.write(SHOW_CURSOR)`
ShowCursor(o, s) == IF o.hideCursor /\ s.cursorHidden THEN << <<SHOW_CURSOR>> >> ELSE <<>>

\* a faulty variant: the cursor is shown and the flag left as it was
FinishCall_KeepsFlag(o, s) == Outcome(s, ShowCursor(o, s), <<>>, "finish")

\* finish(): restore the cursor
FinishCall(o, s) ==
    Outcome([s EXCEPT !.cursorHidden = IF o.hideCursor THEN FALSE ELSE @],
            ShowCursor(o, s), <<>>, "finish")

\* a faulty variant: the final frame cut to the tail window
FinishFinalCall_Windowed(o, s, final) ==
    LET rendered == Rendered(RenderFrame(final))
        rawLines == RawLines(rendered)
        rawHeights == MeasureLines(rawLines, o.width)
        totalRows == SumRows(rawHeights, Len(rawHeights))
        nextLines == NextLines(o, rendered, rawLines)
        nextHeights == NextHeights(o, nextLines, rawHeights)
        nextRows == NextRows(o, nextLines, totalRows)
        frame == HidePrefix(o, s) \o Begin(o) \o HomeAndClear(s.cursorRow)
                 \o RowBytes(nextLines, 0) \o End(o)
        painted == Redrawn(o, s, rendered, nextLines, nextHeights, nextRows)
    IN  Outcome([painted EXCEPT !.cursorHidden = IF o.hideCursor THEN FALSE ELSE @],
                <<frame>> \o ShowCursor(o, painted), <<>>, "finishFinal")

\* finish(final): one full repaint of the whole frame, then restore the cursor
FinishFinalCall(o, s, final) ==
    LET rendered == Rendered(RenderFrame(final))
        rawLines == RawLines(rendered)
        rawHeights == MeasureLines(rawLines, o.width)
        totalRows == SumRows(rawHeights, Len(rawHeights))
        frame == HidePrefix(o, s) \o Begin(o) \o HomeAndClear(s.cursorRow)
                 \o RowBytes(rawLines, 0) \o End(o)
        painted == Redrawn(o, s, rendered, rawLines, rawHeights, totalRows)
    IN  Outcome([painted EXCEPT !.cursorHidden = IF o.hideCursor THEN FALSE ELSE @],
                <<frame>> \o ShowCursor(o, painted), <<>>, "finishFinal")

\* ------------------------------------------------- calls that throw
\* A callback of the caller (renderFrame, onOverflow, the write sink) may
\* throw; the call ends there, with the assignments made before it.

\* the state when the sink is called with a frame: the cursor-hidden flag is
\* assigned while the frame is built, before `options.write(frame)`
BeforeWrite(o, s) == [s EXCEPT !.cursorHidden = IF o.hideCursor THEN TRUE ELSE @]

\* render(input) during which a callback throws, where `out` is how the call
\* ends when nothing throws: renderFrame throws before any assignment;
\* onOverflow after the latch and the notified flag are set; the sink after
\* the latch and the cursor-hidden flag are set and before the frame is
\* retained.  A silenced call returns before it calls anything.
RenderThrows(o, s, out) ==
    IF Silenced(o, s) THEN {}
    ELSE {Outcome(s, <<>>, <<>>, "threw:renderFrame")}
         \cup (IF out.notified # <<>>
               THEN {Outcome([s EXCEPT !.overflowed = TRUE, !.overflowNotified = TRUE],
                             <<>>, out.notified, "threw:onOverflow")}
               ELSE {})
         \cup (IF out.writes # <<>>
               THEN {Outcome(BeforeWrite(o, [s EXCEPT !.overflowed = out.st.overflowed,
                                                      !.overflowNotified = out.st.overflowNotified]),
                             <<>>, out.notified, "threw:write")}
               ELSE {})

\* finish() during which the sink throws: the flag is reset after the write
FinishThrows(o, s) ==
    IF o.hideCursor /\ s.cursorHidden
    THEN {Outcome(s, <<>>, <<>>, "threw:write")}
    ELSE {}

\* finish(final) during which a callback throws, where `out` is how the call
\* ends when nothing throws: renderFrame before any assignment; the sink on
\* the repaint before the frame is retained; the sink on the show-cursor
\* sequence after the repaint was written and retained
FinishFinalThrows(o, s, out) ==
    {Outcome(s, <<>>, <<>>, "threw:renderFrame"),
     Outcome(BeforeWrite(o, s), <<>>, <<>>, "threw:write")}
    \cup (IF Len(out.writes) > 1
          THEN {Outcome(BeforeWrite(o, out.st), <<out.writes[1]>>, <<>>, "threw:show")}
          ELSE {})

\* ------------------------------------------------------------ the terminal
\* A terminal that interprets the written bytes: `rows` are the rows of the
\* live region from its top, `r` the cursor's row below that top, `c` its
\* column; `lost` once the cursor wrote or cleared above the top.
InitialTerminal == [rows |-> <<>>, r |-> 0, c |-> 0, lost |-> FALSE]

RowAt(rows, i) == IF 1 <= i /\ i <= Len(rows) THEN rows[i] ELSE <<>>

\* the rows with unit ch put at row r, column c
PutChar(rows, r, c, ch) ==
    LET old == RowAt(rows, r + 1)
        new == [j \in 1..Max(Len(old), c + 1) |->
                    IF j = c + 1 THEN ch ELSE IF j <= Len(old) THEN old[j] ELSE " "]
    IN  [i \in 1..Max(Len(rows), r + 1) |-> IF i = r + 1 THEN new ELSE RowAt(rows, i)]

\* the rows with everything from row r, column c on erased
EraseBelow(rows, r, c) ==
    LET keep == IF c > 0 /\ r + 1 <= Len(rows) THEN r + 1 ELSE r
    IN  [i \in 1..Min(Len(rows), keep) |->
            IF i = r + 1 THEN SubSeq(rows[i], 1, Min(c, Len(rows[i]))) ELSE rows[i]]

TermToken(t, tok, width) ==
    IF tok.k = "UP" THEN [t EXCEPT !.r = @ - tok.n]
    ELSE IF tok.k = "DOWN" THEN [t EXCEPT !.r = @ + tok.n]
    ELSE IF tok.k = "CR" THEN [t EXCEPT !.c = 0]
    ELSE IF tok.k = "LF" THEN [t EXCEPT !.r = @ + 1]
    ELSE IF tok.k = "HOME" THEN [t EXCEPT !.r = 0, !.c = 0]
    ELSE IF tok.k = "ED2" THEN [t EXCEPT !.rows = <<>>]
    ELSE IF tok.k = "ED0"
    THEN IF t.r < 0 THEN [t EXCEPT !.lost = TRUE]
         ELSE [t EXCEPT !.rows = EraseBelow(t.rows, t.r, t.c)]
    ELSE IF tok.k = "CH"
    THEN LET w == StringWidth(tok.c)
             wrap == t.c + w > width /\ t.c > 0
             r == IF wrap THEN t.r + 1 ELSE t.r
             c == IF wrap THEN 0 ELSE t.c
         IN  IF w = 0 THEN t
             ELSE IF r < 0 THEN [t EXCEPT !.lost = TRUE]
             ELSE [t EXCEPT !.rows = PutChar(t.rows, r, c, tok.c), !.r = r, !.c = c + w]
    ELSE t

RECURSIVE TermChunk(_, _, _, _)
TermChunk(t, chunk, i, width) ==
    IF i > Len(chunk) THEN t
    ELSE TermChunk(TermToken(t, chunk[i], width), chunk, i + 1, width)

RECURSIVE TermWrites(_, _, _, _)
TermWrites(t, wr, i, width) ==
    IF i > Len(wr) THEN t
    ELSE TermWrites(TermChunk(t, wr[i], 1, width), wr, i + 1, width)

\* ------------------------------------------------------------ the streamer
\* createMarkdownStreamer of stream.ts: strings are sequences of
\* one-character strings, as above.

\* \s of the regular expressions, and the white space of trim / trimStart
IsSpace(c) == c \in {" ", "\t", "\n", "\r"}

RECURSIVE TrimStart(_)
TrimStart(line) ==
    IF Len(line) > 0 /\ IsSpace(line[1]) THEN TrimStart(Tail(line)) ELSE line

RECURSIVE TrimEnd(_)
TrimEnd(line) ==
    IF Len(line) > 0 /\ IsSpace(line[Len(line)])
    THEN TrimEnd(SubSeq(line, 1, Len(line) - 1))
    ELSE line

Trim(line) == TrimEnd(TrimStart(line))

\* line.includes(c)
Includes(line, c) == \E j \in 1..Len(line) : line[j] = c

\* input.replace(/\r\n?/g, "\n")
RECURSIVE NormalizeNewlinesFrom(_, _)
NormalizeNewlinesFrom(input, i) ==
    IF i > Len(input) THEN <<>>
    ELSE IF input[i] = "\r"
    THEN <<"\n">> \o NormalizeNewlinesFrom(input,
                        IF i + 1 <= Len(input) /\ input[i + 1] = "\n" THEN i + 2 ELSE i + 1)
    ELSE <<input[i]>> \o NormalizeNewlinesFrom(input, i + 1)

NormalizeNewlines(input) == NormalizeNewlinesFrom(input, 1)

\* the length of the run of c at the head of s
RECURSIVE RunLength(_, _)
RunLength(s, c) ==
    IF Len(s) > 0 /\ s[1] = c THEN 1 + RunLength(Tail(s), c) ELSE 0

\* `fence = null`
NoFence == [char |-> "", len |-> 0]

\* isFenceStart(line): a run of three or more backticks ("BT") or of three or
\* more tildes at the head of the line without its leading white space;
\* NoFence stands for null
IsFenceStart(line) ==
    LET trimmed == TrimStart(line)
    IN  IF RunLength(trimmed, "BT") >= 3
        THEN [char |-> "BT", len |-> RunLength(trimmed, "BT")]
        ELSE IF RunLength(trimmed, "~") >= 3
        THEN [char |-> "~", len |-> RunLength(trimmed, "~")]
        ELSE NoFence

\* isFenceEnd(line, fence): the trimmed line starts with the fence token
IsFenceEnd(line, fence) == RunLength(TrimStart(line), fence.char) >= fence.len

\* the match in line 184: the trimmed line is a run of three or more
\* backticks or tildes followed by white space only
IsBareFence(line) ==
    LET trimmed == TrimStart(line)
        run == Max(RunLength(trimmed, "BT"), RunLength(trimmed, "~"))
    IN  run >= 3 /\ \A j \in (run + 1)..Len(trimmed) : IsSpace(trimmed[j])

\* /[^\s|]/.test(line)
HasCellText(line) == \E j \in 1..Len(line) : ~IsSpace(line[j]) /\ line[j] # "|"

\* looksLikeTableHeader(line)
LooksLikeTableHeader(line) == Includes(line, "|") /\ HasCellText(line)

\* a faulty variant: the bar of a row is not asked for
LooksLikeTableRow_AnyText(line) == HasCellText(line)

\* looksLikeTableRow(line)
LooksLikeTableRow(line) == Includes(line, "|") /\ HasCellText(line)

\* s.split("|")
RECURSIVE SplitBars(_, _, _)
SplitBars(s, i, cur) ==
    IF i > Len(s) THEN <<cur>>
    ELSE IF s[i] = "|" THEN <<cur>> \o SplitBars(s, i + 1, <<>>)
    ELSE SplitBars(s, i + 1, Append(cur, s[i]))

\* \s*:?-+:?\s* matches the whole of cell
IsSeparatorCell(cell) ==
    LET t == Trim(cell)
        a == IF Len(t) > 0 /\ t[1] = ":" THEN Tail(t) ELSE t
        b == IF Len(a) > 0 /\ a[Len(a)] = ":" THEN SubSeq(a, 1, Len(a) - 1) ELSE a
    IN  Len(b) >= 1 /\ \A j \in 1..Len(b) : b[j] = "-"

\* isTableSeparator(line): /^\|?(?:\s*:?-+:?\s*\|)+\s*:?-+:?\s*\|?$/ on the
\* trimmed line, i.e. two or more separator cells between bars, with an
\* optional bar before the first and after the last
IsTableSeparator(line) ==
    LET trimmed == Trim(line)
        parts == SplitBars(trimmed, 1, <<>>)
        first == IF Len(parts) > 1 /\ parts[1] = <<>> THEN 2 ELSE 1
        last == IF Len(parts) > 1 /\ parts[Len(parts)] = <<>>
                THEN Len(parts) - 1 ELSE Len(parts)
    IN  /\ Includes(trimmed, "-")
        /\ last - first + 1 >= 2
        /\ \A k \in first..last : IsSeparatorCell(parts[k])

\* rendered.replace(/^\n+/, "")
RECURSIVE StripLeadingNewlines(_)
StripLeadingNewlines(rendered) ==
    IF Len(rendered) > 0 /\ rendered[1] = "\n"
    THEN StripLeadingNewlines(Tail(rendered))
    ELSE rendered

\* normalizeRenderedFragment(rendered)
NormalizeRenderedFragment(rendered) ==
    LET trimmedStart == StripLeadingNewlines(rendered)
    IN  IF EndsWithNewline(trimmedStart) THEN trimmedStart
        ELSE Append(trimmedStart, "\n")

\* options.render is the caller's pure callback.  The one used here returns
\* a one-line fragment followed by a newline, and a block of several lines
\* preceded by a newline and without its last newline, as a renderer of whole
\* documents does for some blocks.
RenderCallback(markdown) ==
    IF Includes(markdown, "\n")
    THEN <<"\n">> \o (IF EndsWithNewline(markdown)
                      THEN SubSeq(markdown, 1, Len(markdown) - 1) ELSE markdown)
    ELSE Append(markdown, "\n")

\* the streamer as created, from `let buffer` to `let fenceBuffer`;
\* the empty held header stands for null
NewStreamer ==
    [buffer |-> <<>>, blankStreak |-> 0, heldTableHeader |-> <<>>, inTable |-> FALSE,
     tableBuffer |-> <<>>, fence |-> NoFence, fenceBuffer |-> <<>>]

\* the result of a call or of a part of one: the state it leaves, the text
\* it returns and the fragments it passed to render
Returned(st, out, rendered) == [st |-> st, out |-> out, rendered |-> rendered]

\* the part r followed by the part q, which began in the state r left
AndThen(r, q) == Returned(q.st, r.out \o q.out, r.rendered \o q.rendered)

\* a faulty variant: the streak of blank lines is not consulted
EmitBlankLine_NoStreak(sp, st) ==
    IF sp = "tight" THEN Returned(st, <<>>, <<>>)
    ELSE Returned([st EXCEPT !.blankStreak = @ + 1], <<"\n">>, <<>>)

\* emitBlankLine()
EmitBlankLine(sp, st) ==
    IF sp = "tight" THEN Returned(st, <<>>, <<>>)
    ELSE IF sp = "single" /\ st.blankStreak >= 1 THEN Returned(st, <<>>, <<>>)
    ELSE Returned([st EXCEPT !.blankStreak = @ + 1], <<"\n">>, <<>>)

\* emitRendered(markdown)
EmitRendered(st, markdown) ==
    IF markdown = <<>> THEN Returned(st, <<>>, <<>>)
    ELSE Returned([st EXCEPT !.blankStreak = 0],
                  NormalizeRenderedFragment(RenderCallback(markdown)), <<markdown>>)

\* flushHeldHeader()
FlushHeldHeader(st) ==
    IF st.heldTableHeader = <<>> THEN Returned(st, <<>>, <<>>)
    ELSE EmitRendered([st EXCEPT !.heldTableHeader = <<>>], st.heldTableHeader)

\* flushTable()
FlushTable(st) ==
    IF ~st.inTable THEN Returned(st, <<>>, <<>>)
    ELSE EmitRendered([st EXCEPT !.inTable = FALSE, !.tableBuffer = <<>>], st.tableBuffer)

\* flushFence()
FlushFence(st) ==
    IF st.fence = NoFence THEN Returned(st, <<>>, <<>>)
    ELSE EmitRendered([st EXCEPT !.fence = NoFence, !.fenceBuffer = <<>>], st.fenceBuffer)

\* line.trim().length === 0
IsBlank(line) == Len(Trim(line)) = 0

\* `${line}\n`
WithNewline(line) == Append(line, "\n")

\* processLine(line)
RECURSIVE ProcessLine(_, _, _)
ProcessLine(sp, st, line) ==
    IF st.fence # NoFence
    THEN LET buffered == [st EXCEPT !.fenceBuffer = @ \o WithNewline(line)]
         IN  IF IsFenceEnd(line, st.fence) THEN FlushFence(buffered)
             ELSE Returned(buffered, <<>>, <<>>)
    ELSE IF st.inTable
    THEN IF IsBlank(line)
         THEN AndThen(FlushTable(st), EmitBlankLine(sp, FlushTable(st).st))
         ELSE IF ~LooksLikeTableRow(line)
         THEN AndThen(FlushTable(st), ProcessLine(sp, FlushTable(st).st, line))
         ELSE Returned([st EXCEPT !.tableBuffer = @ \o WithNewline(line)], <<>>, <<>>)
    ELSE IF IsBlank(line)
    THEN AndThen(FlushHeldHeader(st), EmitBlankLine(sp, FlushHeldHeader(st).st))
    ELSE IF IsFenceStart(line) # NoFence
    THEN LET out == FlushHeldHeader(st)
             opened == Returned([out.st EXCEPT !.fence = IsFenceStart(line),
                                               !.fenceBuffer = WithNewline(line)],
                                out.out, out.rendered)
         IN  IF IsFenceEnd(line, IsFenceStart(line)) /\ IsBareFence(line)
             THEN AndThen(opened, FlushFence(opened.st))
             ELSE opened
    ELSE IF st.heldTableHeader # <<>>
    THEN IF IsTableSeparator(line) /\ LooksLikeTableHeader(st.heldTableHeader)
         THEN Returned([st EXCEPT !.inTable = TRUE,
                                  !.tableBuffer = WithNewline(st.heldTableHeader)
                                                      \o WithNewline(line),
                                  !.heldTableHeader = <<>>],
                       <<>>, <<>>)
         ELSE AndThen(FlushHeldHeader(st), ProcessLine(sp, FlushHeldHeader(st).st, line))
    ELSE IF LooksLikeTableHeader(line)
    THEN Returned([st EXCEPT !.heldTableHeader = line], <<>>, <<>>)
    ELSE EmitRendered(st, line)

\* buffer.indexOf("\n"), 1-based; 0 stands for -1
IndexOfNewline(buffer) ==
    IF ~Includes(buffer, "\n") THEN 0
    ELSE CHOOSE j \in 1..Len(buffer) :
             buffer[j] = "\n" /\ \A m \in 1..(j - 1) : buffer[m] # "\n"

\* a faulty variant: what is left without newline is processed as a line
RECURSIVE PushLoop_FlushesTail(_, _)
PushLoop_FlushesTail(sp, st) ==
    LET idx == IndexOfNewline(st.buffer)
    IN  IF idx = 0
        THEN (IF st.buffer = <<>> THEN Returned(st, <<>>, <<>>)
              ELSE ProcessLine(sp, [st EXCEPT !.buffer = <<>>], st.buffer))
        ELSE LET line == SubSeq(st.buffer, 1, idx - 1)
                 taken == [st EXCEPT !.buffer = SubSeq(@, idx + 1, Len(@))]
                 processed == ProcessLine(sp, taken, line)
             IN  AndThen(processed, PushLoop_FlushesTail(sp, processed.st))

\* the loop of push: a line is taken off the buffer and processed, as long
\* as the buffer holds a newline
RECURSIVE PushLoop(_, _)
PushLoop(sp, st) ==
    LET idx == IndexOfNewline(st.buffer)
    IN  IF idx = 0 THEN Returned(st, <<>>, <<>>)
        ELSE LET line == SubSeq(st.buffer, 1, idx - 1)
                 taken == [st EXCEPT !.buffer = SubSeq(@, idx + 1, Len(@))]
                 processed == ProcessLine(sp, taken, line)
             IN  AndThen(processed, PushLoop(sp, processed.st))

\* push(delta)
PushCall(sp, st, delta) ==
    IF delta = <<>> THEN Returned(st, <<>>, <<>>)
    ELSE PushLoop(sp, [st EXCEPT !.buffer = @ \o NormalizeNewlines(delta)])

\* a faulty variant: the open table is not flushed
StreamFinishCall_KeepsTable(sp, st, finalDelta) ==
    LET pushed == IF finalDelta # <<>> THEN PushCall(sp, st, finalDelta)
                  ELSE Returned(st, <<>>, <<>>)
        tail == IF pushed.st.buffer # <<>>
                THEN LET processed == ProcessLine(sp, pushed.st, pushed.st.buffer)
                     IN  Returned([processed.st EXCEPT !.buffer = <<>>],
                                  processed.out, processed.rendered)
                ELSE Returned(pushed.st, <<>>, <<>>)
        header == FlushHeldHeader(tail.st)
        fenced == FlushFence(header.st)
    IN  AndThen(AndThen(AndThen(pushed, tail), header), fenced)

\* finish(finalDelta); the empty finalDelta stands for none as well
StreamFinishCall(sp, st, finalDelta) ==
    LET pushed == IF finalDelta # <<>> THEN PushCall(sp, st, finalDelta)
                  ELSE Returned(st, <<>>, <<>>)
        tail == IF pushed.st.buffer # <<>>
                THEN LET processed == ProcessLine(sp, pushed.st, pushed.st.buffer)
                     IN  Returned([processed.st EXCEPT !.buffer = <<>>],
                                  processed.out, processed.rendered)
                ELSE Returned(pushed.st, <<>>, <<>>)
        header == FlushHeldHeader(tail.st)
        fenced == FlushFence(header.st)
        table == FlushTable(fenced.st)
    IN  AndThen(AndThen(AndThen(AndThen(pushed, tail), header), fenced), table)

\* a faulty variant: the streak of blank lines survives the reset
ResetCall_KeepsStreak(st) ==
    Returned([st EXCEPT !.buffer = <<>>, !.heldTableHeader = <<>>,
                        !.inTable = FALSE, !.tableBuffer = <<>>, !.fence = NoFence,
                        !.fenceBuffer = <<>>],
             <<>>, <<>>)

\* reset()
ResetCall(st) ==
    Returned([st EXCEPT !.buffer = <<>>, !.blankStreak = 0, !.heldTableHeader = <<>>,
                        !.inTable = FALSE, !.tableBuffer = <<>>, !.fence = NoFence,
                        !.fenceBuffer = <<>>],
             <<>>, <<>>)

\* `options.spacing ?? "single"`
Spacings == {"preserve", "single", "tight"}

\* the pieces the deltas are made of: parts of lines and whole lines
StreamPieces ==
    {<<"a">>, <<" ">>, <<"BT">>, <<"\n">>, <<"\r">>,
     <<"a", "\n">>, <<"|", "a", "\n">>, <<"-", "|", "-", "\n">>,
     <<"BT", "BT", "BT", "a", "\n">>, <<"BT", "BT", "BT", "\n">>,
     <<"~", "~", "~", "\n">>}

\* the deltas: one piece, or two lines at once, or a line and the head of
\* the next
Deltas ==
    StreamPieces
        \cup {p \o q : p \in {<<"a", "\n">>, <<"\n">>, <<"|", "a", "\n">>},
                       q \in {<<"a", "\n">>, <<"\n">>, <<"a">>}}

\* the most pieces pushed into one streamer
MaxPushed == 4

\* the number of pieces a delta is made of
Pieces(delta) == IF delta = <<>> THEN 0 ELSE IF delta \in StreamPieces THEN 1 ELSE 2

\* ------------------------------------------------------------ the system
VARIABLES
    opt,                  \* the options the engine was created with
    previousLines, previousLineHeights, cursorRow, cursorHidden,
    overflowed, overflowNotified, previousRenderedRaw,
    path,                 \* the path the last call took ("new": no call yet)
    overflowCalls,        \* onOverflow calls since the engine was created
    everHid,              \* a hide-cursor sequence has been written
    cursorSeen,           \* the cursor sequences written so far, as a
                          \* terminal sees them: "none", the last one, or
                          \* "twice" once two of a kind followed each other
                          \* (followed by the engine by itself)
    term,                 \* the terminal after the written bytes, where followed
    splitter,             \* a run of splitToRows: its locals and position
    spacing,              \* the spacing option the streamer was created with
    streamer,             \* the variables of the streamer
    piecesPushed,         \* the pieces pushed into the streamer so far
    lastCall,             \* the last call of the streamer: the state it began
                          \* in, what it returned and what it rendered
    twin                  \* a second engine given the same inputs, created
                          \* without appendWhenPossible, its terminal, and
                          \* the number of calls made to both

engineVars == <<opt, previousLines, previousLineHeights, cursorRow, cursorHidden,
                overflowed, overflowNotified, previousRenderedRaw,
                path, overflowCalls, everHid, cursorSeen, term>>

streamVars == <<spacing, streamer, piecesPushed, lastCall>>

vars == <<engineVars, splitter, streamVars, twin>>

EngineState ==
    [previousLines |-> previousLines, previousLineHeights |-> previousLineHeights,
     cursorRow |-> cursorRow, cursorHidden |-> cursorHidden,
     overflowed |-> overflowed, overflowNotified |-> overflowNotified,
     previousRenderedRaw |-> previousRenderedRaw]

\* some chunk of wr holds a token of kind k
Emits(wr, k) == \E i \in 1..Len(wr) : \E j \in 1..Len(wr[i]) : wr[i][j].k = k

\* the terminal shows exactly the rows `lines`, the cursor `row` rows below
\* the top of the live region
Shows(t, lines, row) ==
    /\ ~t.lost
    /\ t.r = row
    /\ \A i \in 1..Max(Len(t.rows), Len(lines)) : RowAt(t.rows, i) = RowAt(lines, i)

\* the hide-cursor and show-cursor sequences in the chunks wr, in the order
\* written
RECURSIVE CursorSequences(_, _)
CursorSequences(wr, i) ==
    IF i > Len(wr) THEN <<>>
    ELSE SelectSeq(wr[i], LAMBDA t : t.k \in {"HIDE", "SHOW"}) \o CursorSequences(wr, i + 1)

\* what has been seen of the cursor sequences after `seq` from index i on
\* follows `seen`: a hide-cursor after none or after a show-cursor, a
\* show-cursor after a hide-cursor, or else two of a kind in a row (a
\* show-cursor before any hide-cursor counts as such)
RECURSIVE Watched(_, _, _)
Watched(seen, seq, i) ==
    IF i > Len(seq) THEN seen
    ELSE IF seq[i].k = "HIDE" /\ seen \in {"none", "SHOW"} THEN Watched("HIDE", seq, i + 1)
    ELSE IF seq[i].k = "SHOW" /\ seen = "HIDE" THEN Watched("SHOW", seq, i + 1)
    ELSE "twice"

\* no run of splitToRows is under way
SplitterIdle ==
    [pc |-> "idle", text |-> <<>>, width |-> Width, lines |-> <<>>, k |-> 0, i |-> 0,
     current |-> <<>>, currentWidth |-> 0, activeSgr |-> <<>>, rows |-> <<>>]

\* no call of the streamer yet
NoCall ==
    [op |-> "new", delta |-> <<>>, before |-> NewStreamer, out |-> <<>>, rendered |-> <<>>]

StreamerInit(spacings) ==
    /\ spacing \in spacings
    /\ streamer = NewStreamer
    /\ piecesPushed = 0
    /\ lastCall = NoCall

EngineInit(options) ==
    /\ opt \in options
    /\ previousLines = InitialState.previousLines
    /\ previousLineHeights = InitialState.previousLineHeights
    /\ cursorRow = InitialState.cursorRow
    /\ cursorHidden = InitialState.cursorHidden
    /\ overflowed = InitialState.overflowed
    /\ overflowNotified = InitialState.overflowNotified
    /\ previousRenderedRaw = InitialState.previousRenderedRaw
    /\ path = "new"
    /\ overflowCalls = 0
    /\ everHid = FALSE
    /\ cursorSeen = "none"
    /\ term = InitialTerminal

\* the second engine as created
NewTwin == [st |-> InitialState, term |-> InitialTerminal, calls |-> 0]

InitWith(options) ==
    /\ EngineInit(options)
    /\ splitter = SplitterIdle
    /\ StreamerInit({"single"})
    /\ twin = NewTwin

\* the variables of the engine after a call that ended with outcome `out`
Kept(out) ==
    /\ previousLines' = out.st.previousLines
    /\ previousLineHeights' = out.st.previousLineHeights
    /\ cursorRow' = out.st.cursorRow
    /\ cursorHidden' = out.st.cursorHidden
    /\ overflowed' = out.st.overflowed
    /\ overflowNotified' = out.st.overflowNotified
    /\ previousRenderedRaw' = out.st.previousRenderedRaw

\* the engine after a call that ended with outcome `out`, and what is
\* recorded of the call
Retained(out) ==
    /\ Kept(out)
    /\ path' = out.path
    /\ overflowCalls' = overflowCalls + Len(out.notified)
    /\ everHid' = (everHid \/ Emits(out.writes, "HIDE"))

\* a call ended with outcome `out`
Commit(out) == Retained(out) /\ UNCHANGED <<opt, cursorSeen, splitter, streamVars, twin>>

Render ==
    \E input \in Texts :
        \E out \in {RenderCall(opt, EngineState, input)} :
            Commit(out) /\ UNCHANGED term

Finish ==
    \E out \in {FinishCall(opt, EngineState)} :
        Commit(out) /\ UNCHANGED term

FinishFinal ==
    \E final \in Texts :
        \E out \in {FinishFinalCall(opt, EngineState, final)} :
            Commit(out) /\ UNCHANGED term

Next == Render \/ Finish \/ FinishFinal

Init == InitWith(Options)

Spec == Init /\ [][Next]_vars

\* the cursor sequences written and the calls of onOverflow made up to the
\* end of a call with outcome `out`
Watching(out) ==
    /\ cursorSeen' = Watched(cursorSeen, CursorSequences(out.writes, 1), 1)
    /\ everHid' = (everHid \/ Emits(out.writes, "HIDE"))
    /\ overflowCalls' = overflowCalls + Len(out.notified)

\* the engine by itself: the same calls, of which the state they leave, the
\* cursor sequences they wrote and their calls of onOverflow are recorded,
\* and not the path they took
RenderCore ==
    \E input \in Texts :
        \E out \in {RenderCall(opt, EngineState, input)} :
            Kept(out) /\ Watching(out) /\ UNCHANGED <<opt, path, term,
                                     splitter, streamVars, twin>>

FinishCore ==
    \E out \in {FinishCall(opt, EngineState)} :
        Kept(out) /\ Watching(out) /\ UNCHANGED <<opt, path, term,
                                 splitter, streamVars, twin>>

FinishFinalCore ==
    \E final \in Texts :
        \E out \in {FinishFinalCall(opt, EngineState, final)} :
            Kept(out) /\ Watching(out) /\ UNCHANGED <<opt, path, term,
                                     splitter, streamVars, twin>>

NextCore == RenderCore \/ FinishCore \/ FinishFinalCore

SpecCore == Init /\ [][NextCore]_vars

\* an engine driven by render() and finish() alone, never finish(final)
NextRender == Render \/ Finish

SpecRender == Init /\ [][NextRender]_vars

\* --------------------------------------- the engine with throwing callbacks
\* Each call either ends normally or at a callback that throws.
RenderMayThrow ==
    \E input \in Texts :
        \E out \in {RenderCall(opt, EngineState, input)} :
            \E end \in {out} \cup RenderThrows(opt, EngineState, out) :
                Commit(end) /\ UNCHANGED term

FinishMayThrow ==
    \E end \in {FinishCall(opt, EngineState)} \cup FinishThrows(opt, EngineState) :
        Commit(end) /\ UNCHANGED term

FinishFinalMayThrow ==
    \E final \in Texts :
        \E out \in {FinishFinalCall(opt, EngineState, final)} :
            \E end \in {out} \cup FinishFinalThrows(opt, EngineState, out) :
                Commit(end) /\ UNCHANGED term

NextThrows == RenderMayThrow \/ FinishMayThrow \/ FinishFinalMayThrow

\* the options explored with throwing callbacks: the markers do not touch the
\* state, and the append path calls the sink as the redraws do, after the
\* cursor-hidden flag is assigned and before the frame is retained; the
\* clear options keep their defaults
ThrowOptions ==
    {o \in Options : /\ o.synchronizedOutput /\ ~o.appendWhenPossible
                     /\ o.clearOnOverflow /\ ~o.clearScrollbackOnOverflow}

SpecThrows == InitWith(ThrowOptions) /\ [][NextThrows]_vars

\* ---------------------------------------------- the engine on a terminal
\* The same calls with the written bytes interpreted by the terminal.  The
\* terminal is followed up to the first call after which it no longer shows
\* the retained frame.
Follow(out) ==
    /\ ~term.lost
    /\ LET t == TermWrites(term, out.writes, 1, opt.width)
       IN  term' = IF Shows(t, out.st.previousLines, out.st.cursorRow)
                   THEN t
                   ELSE [t EXCEPT !.lost = TRUE]

\* the texts whose every logical line is no wider than the terminal
Fitting(width) ==
    {x \in Texts : \A k \in 1..Len(RawLines(Rendered(x))) :
                      VisibleWidth(RawLines(Rendered(x))[k]) <= width}

RenderShown ==
    \E input \in Fitting(opt.width) :
        \E out \in {RenderCall(opt, EngineState, input)} :
            Commit(out) /\ Follow(out)

FinishShown ==
    \E out \in {FinishCall(opt, EngineState)} :
        Commit(out) /\ Follow(out)

FinishFinalShown ==
    \E final \in Fitting(opt.width) :
        \E out \in {FinishFinalCall(opt, EngineState, final)} :
            Commit(out) /\ Follow(out)

NextShown == RenderShown \/ FinishShown \/ FinishFinalShown

\* normal mode: no tail window, no row budget, no append path
NormalOptions ==
    {o \in Options : o.tailRows = 0 /\ o.maxRows = 0 /\ ~o.appendWhenPossible}

SpecShown == InitWith(NormalOptions) /\ [][NextShown]_vars

\* -------------------------------------------- the row splitter, step by step
\* One run of splitToRows(rendered), an action per iteration of the loop of
\* splitLineToRows.  The rows of a line are pushed onto the rows of the text
\* as they are completed.

\* the units inputs are built from: single code units and the escape
\* sequences too long to be built from them within MaxUnits
SplitUnits ==
    {<<"a">>, <<"WIDE">>, <<"ZW">>, <<"\n">>, <<"ESC">>, <<"[">>, <<"]">>, <<"m">>,
     <<"0">>, <<";">>, <<"1">>, <<"\\">>, <<"BEL">>,
     <<"ESC", "[">>, <<"ESC", "[", "1", "m">>, <<"ESC", "[", "0", ";", "1", "m">>}

MaxUnits == 3

RECURSIVE UnitTexts(_)
UnitTexts(n) ==
    IF n = 0 THEN {<<>>}
    ELSE LET shorter == UnitTexts(n - 1)
         IN  shorter \cup {t \o u : t \in shorter, u \in SplitUnits}

SplitTexts == UnitTexts(MaxUnits)

\* the line the loop is in
SplitterLine == splitter.lines[splitter.k]

\* `const renderLines = tailRows ? splitToRows(rendered) : rawLines`, up to
\* the first iteration of the first line
SplitToRowsBegin ==
    /\ splitter.pc = "idle"
    /\ \E input \in SplitTexts, width \in 1..Width :
           LET text == Rendered(RenderFrame(input))
               lines == PopTrailingEmpty(Split(text))
           IN  splitter' =
                   IF Len(lines) = 0
                   THEN [SplitterIdle EXCEPT !.pc = "done", !.text = text,
                                             !.width = width, !.rows = << <<>> >>]
                   ELSE [SplitterIdle EXCEPT !.pc = "loop", !.text = text,
                                             !.width = width, !.lines = lines,
                                             !.k = 1, !.i = 1]
    /\ UNCHANGED <<engineVars, streamVars, twin>>

\* an iteration that finds an escape sequence at i
AnsiStep ==
    /\ splitter.pc = "loop"
    /\ splitter.i <= Len(SplitterLine)
    /\ LET ansi == ExtractAnsiToken(SplitterLine, splitter.i)
       IN  /\ ansi.isAnsi
           /\ splitter' = [splitter EXCEPT
                               !.current = @ \o ansi.token,
                               !.activeSgr = UpdateSgrState(@, ansi.token),
                               !.i = ansi.nextIndex]
    /\ UNCHANGED <<engineVars, streamVars, twin>>

\* a faulty variant: the row after a wrap point starts without the active
\* style
CharStep_DropsStyle ==
    /\ splitter.pc = "loop"
    /\ splitter.i <= Len(SplitterLine)
    /\ ~ExtractAnsiToken(SplitterLine, splitter.i).isAnsi
    /\ LET ch == SplitterLine[splitter.i]
           w == StringWidth(ch)
           wrap == splitter.currentWidth + w > splitter.width /\ splitter.currentWidth > 0
       IN  splitter' = [splitter EXCEPT
                            !.rows = IF wrap THEN Append(@, splitter.current) ELSE @,
                            !.current = (IF wrap THEN <<>> ELSE @) \o <<ch>>,
                            !.currentWidth = (IF wrap THEN 0 ELSE @) + w,
                            !.i = @ + 1]
    /\ UNCHANGED <<engineVars, streamVars, twin>>

\* an iteration that finds a character at i
CharStep ==
    /\ splitter.pc = "loop"
    /\ splitter.i <= Len(SplitterLine)
    /\ ~ExtractAnsiToken(SplitterLine, splitter.i).isAnsi
    /\ LET ch == SplitterLine[splitter.i]
           w == StringWidth(ch)
           wrap == splitter.currentWidth + w > splitter.width /\ splitter.currentWidth > 0
       IN  splitter' = [splitter EXCEPT
                            !.rows = IF wrap THEN Append(@, splitter.current) ELSE @,
                            !.current = (IF wrap THEN splitter.activeSgr ELSE @) \o <<ch>>,
                            !.currentWidth = (IF wrap THEN 0 ELSE @) + w,
                            !.i = @ + 1]
    /\ UNCHANGED <<engineVars, streamVars, twin>>

\* the loop of a line is left: its last row is pushed, and the next line is
\* entered with the active style, or the run ends
EndLine ==
    /\ splitter.pc = "loop"
    /\ splitter.i > Len(SplitterLine)
    /\ splitter' =
           IF splitter.k < Len(splitter.lines)
           THEN [splitter EXCEPT !.rows = Append(@, splitter.current),
                                 !.k = @ + 1, !.i = 1,
                                 !.current = splitter.activeSgr, !.currentWidth = 0]
           ELSE [splitter EXCEPT !.rows = Append(@, splitter.current), !.pc = "done"]
    /\ UNCHANGED <<engineVars, streamVars, twin>>

SplitStep == AnsiStep \/ CharStep \/ EndLine

NextSplit == SplitToRowsBegin \/ AnsiStep \/ CharStep \/ EndLine

\* the options an engine has when none is given
DefaultOptions ==
    [synchronizedOutput |-> TRUE, hideCursor |-> TRUE, width |-> Width,
     maxRows |-> 0, tailRows |-> 0, appendWhenPossible |-> FALSE,
     clearOnOverflow |-> TRUE, clearScrollbackOnOverflow |-> FALSE]

SpecSplit == InitWith({DefaultOptions}) /\ [][NextSplit]_vars

\* the loop is sequential code: an iteration that can run does run
SpecSplitFair == SpecSplit /\ WF_vars(SplitStep)

\* the run agrees with splitToRows computed at once
SplitterAgrees ==
    splitter.pc = "done" => splitter.rows = SplitToRows(splitter.text, splitter.width)

\* ------------------------------------------------- the streamer in use
\* A streamer is pushed deltas, finished and reset in any order.

\* the call `op` with `delta` returned r
Called(op, delta, r) ==
    /\ streamer' = r.st
    /\ lastCall' = [op |-> op, delta |-> delta, before |-> streamer,
                    out |-> r.out, rendered |-> r.rendered]
    /\ piecesPushed' = piecesPushed + Pieces(delta)
    /\ UNCHANGED <<spacing, engineVars, splitter, twin>>

Push ==
    \E delta \in Deltas \cup {<<>>} :
        /\ piecesPushed + Pieces(delta) <= MaxPushed
        /\ \E r \in {PushCall(spacing, streamer, delta)} : Called("push", delta, r)

StreamFinish ==
    \E finalDelta \in StreamPieces \cup {<<>>} :
        /\ piecesPushed + Pieces(finalDelta) <= MaxPushed
        /\ \E r \in {StreamFinishCall(spacing, streamer, finalDelta)} :
               Called("finish", finalDelta, r)

Reset ==
    \E r \in {ResetCall(streamer)} : Called("reset", <<>>, r)

NextStream == Push \/ StreamFinish \/ Reset

SpecStream ==
    /\ EngineInit({DefaultOptions})
    /\ splitter = SplitterIdle
    /\ StreamerInit(Spacings)
    /\ twin = NewTwin
    /\ [][NextStream]_vars

\* ------------------------------------------------ two engines side by side
\* An engine created with appendWhenPossible and a second one created
\* without it, with the same options otherwise and neither tailRows nor
\* maxRows, are given the same inputs; each writes to a terminal of its own.

\* the most render() calls given to the two engines
MaxCalls == 4

\* the options of the second engine
WithoutAppend(o) == [o EXCEPT !.appendWhenPossible = FALSE]

\* render(input) of both engines
RenderBoth(input) ==
    [e \in {"append", "plain"} |->
        RenderCall(IF e = "append" THEN opt ELSE WithoutAppend(opt),
                   IF e = "append" THEN EngineState ELSE twin.st,
                   input)]

RenderTwin ==
    /\ twin.calls < MaxCalls
    /\ \E input \in Texts :
        \E outs \in {RenderBoth(input)} :
            /\ Retained(outs["append"])
            /\ term' = TermWrites(term, outs["append"].writes, 1, opt.width)
            /\ twin' = [st |-> outs["plain"].st,
                        term |-> TermWrites(twin.term, outs["plain"].writes, 1, opt.width),
                        calls |-> twin.calls + 1]
            /\ UNCHANGED <<opt, cursorSeen, splitter, streamVars>>

NextTwin == RenderTwin

AppendOptions ==
    {o \in Options : o.appendWhenPossible /\ o.tailRows = 0 /\ o.maxRows = 0}

SpecTwin == InitWith(AppendOptions) /\ [][NextTwin]_vars

\* ----------------------------------------------------------------- claims
\* The frame of a rendered text: its logical lines, their heights, their total.
LinesOf(x) == RawLines(Rendered(RenderFrame(x)))
HeightsOf(x, width) == MeasureLines(LinesOf(x), width)
TotalRowsOf(x, width) == SumRows(HeightsOf(x, width), Len(LinesOf(x)))

\* the physical rows of the whole rendered text, from the Row Splitter
RowsOf(x, width) == SplitToRows(Rendered(RenderFrame(x)), width)

\* the number of tokens of kind k in the chunks wr
RECURSIVE CountIn(_, _, _)
CountIn(chunk, k, i) ==
    IF i > Len(chunk) THEN 0
    ELSE (IF chunk[i].k = k THEN 1 ELSE 0) + CountIn(chunk, k, i + 1)

RECURSIVE Count(_, _, _)
Count(wr, k, i) ==
    IF i > Len(wr) THEN 0 ELSE CountIn(wr[i], k, 1) + Count(wr, k, i + 1)

\* C1: from every reachable state and for every input x, render(x) followed
\* by render(x) makes no write in the second call and the second call leaves
\* every field of the engine state as the first call left it.
C1_Idempotent ==
    \A x \in Texts :
        LET first == RenderCall(opt, EngineState, x)
            second == RenderCall(opt, first.st, x)
        IN  second.writes = <<>> /\ second.st = first.st

\* a frame is retained that a render call would find unchanged, in a state
\* from which some input is drawn by the first call and not by its
\* repetition
C1_Witness ==
    /\ \E x \in Texts : RenderCall(opt, EngineState, x).path = "noop"
    /\ \E x \in Texts :
           /\ RenderCall(opt, EngineState, x).path \in {"partial", "full", "append"}
           /\ RenderCall(opt, EngineState, x).writes # <<>>
           /\ RenderCall(opt, RenderCall(opt, EngineState, x).st, x).writes = <<>>

\* C3: after every call cursorRow is the sum of the retained heights, one
\* height per retained line, and it is 0 exactly when no line is retained.
C3_CursorRowIsHeightSum ==
    /\ Len(previousLineHeights) = Len(previousLines)
    /\ cursorRow = SumRows(previousLineHeights, Len(previousLineHeights))
    /\ (cursorRow = 0) <=> (previousLines = <<>>)

\* a redraw left a frame with a line taller than one row, so that the
\* cursor row is more than the number of retained lines
C3_Witness ==
    /\ previousRenderedRaw # <<>>
    /\ \E k \in 1..Len(previousLineHeights) : previousLineHeights[k] > 1
    /\ cursorRow > Len(previousLines)

\* C4: outside tail mode, once overflow is latched every render() writes
\* nothing, does not call onOverflow and leaves the engine state unchanged.
C4_SilentAfterOverflow ==
    (overflowed /\ opt.tailRows = 0) =>
        \A x \in Texts :
            LET r == RenderCall(opt, EngineState, x)
            IN  r.writes = <<>> /\ r.notified = <<>> /\ r.st = EngineState

\* the latch is set, and a render call is silenced although its input fits
\* within maxRows
C4_Witness ==
    /\ overflowed
    /\ \E x \in Texts : RenderCall(opt, EngineState, x).path = "silent"
    /\ opt.tailRows = 0
    /\ opt.maxRows # 0
    /\ \E x \in Texts : TotalRowsOf(x, opt.width) <= opt.maxRows

\* C5: no call resets the overflow latch, and onOverflow is called at most
\* once in the life of an engine.
C5_LatchOneWay == [][(overflowed => overflowed') /\ overflowCalls' <= 1]_vars

\* a tail-mode engine redrew after the latch, with a frame over the budget
C5_Witness ==
    /\ overflowed
    /\ overflowCalls = 1
    /\ opt.tailRows # 0
    /\ cursorRow > 0
    /\ Len(previousLines) > opt.maxRows

\* C6: outside tail mode with maxRows set, a render() of a frame of more than
\* maxRows rows, made before overflow is latched, latches it and calls
\* onOverflow with that row count and maxRows; and after every render()
\* cursorRow is at most maxRows.
C6_BudgetEnforced ==
    (opt.tailRows = 0 /\ opt.maxRows # 0) =>
        \A x \in Texts :
            LET r == RenderCall(opt, EngineState, x)
                total == TotalRowsOf(x, opt.width)
            IN  /\ (~overflowed /\ total > opt.maxRows) =>
                       /\ r.st.overflowed
                       /\ r.notified = <<[rows |-> total, maxRows |-> opt.maxRows]>>
                /\ r.st.cursorRow <= opt.maxRows

\* C7: in tail mode the row count compared with maxRows is the windowed one,
\* min(physical rows of the buffer, tailRows): a render() latches overflow
\* exactly when that count exceeds maxRows and reports that count; with
\* tailRows <= maxRows overflow is never latched and onOverflow never called.
C7_TailMeasuresWindow ==
    (opt.tailRows # 0 /\ opt.maxRows # 0) =>
        /\ \A x \in Texts :
               LET r == RenderCall(opt, EngineState, x)
                   windowed == Min(Len(RowsOf(x, opt.width)), opt.tailRows)
               IN  /\ r.st.overflowed = (overflowed \/ windowed > opt.maxRows)
                   /\ \A i \in 1..Len(r.notified) : r.notified[i].rows = windowed
        /\ opt.tailRows <= opt.maxRows => (~overflowed /\ overflowCalls = 0)

\* a tail-mode engine with tailRows <= maxRows drew a full window, and a
\* buffer of more rows than maxRows can be rendered next
C7_Witness ==
    /\ opt.tailRows # 0
    /\ opt.maxRows # 0
    /\ opt.tailRows <= opt.maxRows
    /\ cursorRow > 0
    /\ Len(previousLines) = opt.tailRows
    /\ \E x \in Texts :
           /\ Len(RowsOf(x, opt.width)) > opt.maxRows
           /\ RenderCall(opt, EngineState, x).writes # <<>>

\* the rows a chunk writes: its CH tokens, split at the line feeds
RECURSIVE WrittenRowsFrom(_, _, _, _)
WrittenRowsFrom(chunk, i, cur, started) ==
    IF i > Len(chunk) THEN (IF started THEN <<cur>> ELSE <<>>)
    ELSE IF chunk[i].k = "CH" THEN WrittenRowsFrom(chunk, i + 1, Append(cur, chunk[i].c), TRUE)
    ELSE IF chunk[i].k = "LF" THEN <<cur>> \o WrittenRowsFrom(chunk, i + 1, <<>>, FALSE)
    ELSE WrittenRowsFrom(chunk, i + 1, cur, started)

WrittenRows(chunk) == WrittenRowsFrom(chunk, 1, <<>>, FALSE)

\* rows is a run of consecutive rows that ends the sequence window
IsSuffix(rows, window) ==
    Len(rows) <= Len(window) /\ rows = LastN(window, Len(rows))

\* C8: in tail mode, after every render() the retained frame is the last
\* min(tailRows, total) physical rows of the whole buffer, each of height 1,
\* and every write holds at most tailRows rows, all of them from that window.
C8_TailWindow ==
    opt.tailRows # 0 =>
        \A x \in Texts :
            LET r == RenderCall(opt, EngineState, x)
                window == LastN(RowsOf(x, opt.width), opt.tailRows)
            IN  /\ r.st.previousLines = window
                /\ r.st.previousLineHeights = [k \in 1..Len(window) |-> 1]
                /\ \A i \in 1..Len(r.writes) :
                       /\ Len(WrittenRows(r.writes[i])) <= opt.tailRows
                       /\ IsSuffix(WrittenRows(r.writes[i]), window)

\* the bytes of a text with every LF replaced by CR LF
RECURSIVE CrLfBytes(_)
CrLfBytes(text) ==
    IF text = <<>> THEN <<>>
    ELSE (IF Head(text) = "\n" THEN <<CR, LF>> ELSE <<Ch(Head(text))>>) \o CrLfBytes(Tail(text))

\* the rendered text of x strictly extends the previously rendered text
Extends(x) ==
    /\ previousRenderedRaw # <<>>
    /\ StartsWith(Rendered(RenderFrame(x)), previousRenderedRaw)
    /\ Len(Rendered(RenderFrame(x))) > Len(previousRenderedRaw)

\* what the append fast path must do for x: one write of the optional hide
\* and markers around the suffix, and the whole new text retained
AppendsOnly(x) ==
    LET r == RenderCall(opt, EngineState, x)
        rendered == Rendered(RenderFrame(x))
        suffix == SubSeq(rendered, Len(previousRenderedRaw) + 1, Len(rendered))
    IN  /\ r.writes = << (IF opt.hideCursor /\ ~cursorHidden THEN <<HIDE_CURSOR>> ELSE <<>>)
                         \o (IF opt.synchronizedOutput THEN <<BSU>> ELSE <<>>)
                         \o CrLfBytes(suffix)
                         \o (IF opt.synchronizedOutput THEN <<ESU>> ELSE <<>>) >>
        /\ ~Emits(r.writes, "UP") /\ ~Emits(r.writes, "DOWN") /\ ~Emits(r.writes, "ED0")
        /\ r.st.previousLines = LinesOf(x)
        /\ r.st.previousLineHeights = HeightsOf(x, opt.width)
        /\ r.st.cursorRow = TotalRowsOf(x, opt.width)
        /\ r.st.previousRenderedRaw = rendered

\* C9 as stated: with appendWhenPossible and no tailRows, every render() of a
\* text that strictly extends the previously rendered text writes the suffix
\* only and retains the whole new text.
C9_AppendAlways ==
    (opt.appendWhenPossible /\ opt.tailRows = 0) =>
        \A x \in Texts : Extends(x) => AppendsOnly(x)

\* C9, amended: the same, unless overflow has been latched (a latched engine
\* outside tail mode is silent).
C9_AppendUnlessLatched ==
    (opt.appendWhenPossible /\ opt.tailRows = 0 /\ ~overflowed) =>
        \A x \in Texts : Extends(x) => AppendsOnly(x)

\* a text of two rows or more has been drawn, and a strict extension of it
\* can follow as an append
C9_Witness ==
    /\ opt.appendWhenPossible
    /\ opt.tailRows = 0
    /\ ~overflowed
    /\ previousRenderedRaw # <<>>
    /\ cursorRow >= 2
    /\ \E x \in Texts : Extends(x) /\ RenderCall(opt, EngineState, x).path = "append"

\* the outcomes of every call that can be made next
NextCalls ==
    {RenderCall(opt, EngineState, x) : x \in Texts}
        \cup {FinishFinalCall(opt, EngineState, x) : x \in Texts}
        \cup {FinishCall(opt, EngineState)}

\* C10 as stated: with hideCursor the hide-cursor sequence is written once
\* in the life of an engine, by the first call that writes, as its first
\* bytes; without hideCursor neither cursor sequence is ever written.
C10_HideOnceEver ==
    \A r \in NextCalls :
        /\ everHid => ~Emits(r.writes, "HIDE")
        /\ (opt.hideCursor /\ ~everHid /\ r.writes # <<>> /\ r.path # "finish") =>
               (r.writes[1][1] = HIDE_CURSOR /\ Count(r.writes, "HIDE", 1) = 1)
        /\ r.writes = <<>> => ~Emits(r.writes, "HIDE")
        /\ ~opt.hideCursor => (~Emits(r.writes, "HIDE") /\ ~Emits(r.writes, "SHOW"))

\* C10, amended: with hideCursor a call writes the hide-cursor sequence
\* exactly when it writes while the cursor-hidden flag is false, once and as
\* the first bytes of its first write, and a render() that wrote leaves the
\* flag true: so it is written once before the first finish() and once more
\* by the first writing call after each finish().  Without hideCursor neither
\* cursor sequence is ever written.
C10_HideWhenShown ==
    \A r \in NextCalls :
        /\ Count(r.writes, "HIDE", 1) =
               (IF opt.hideCursor /\ ~cursorHidden /\ r.writes # <<>> THEN 1 ELSE 0)
        /\ Emits(r.writes, "HIDE") => r.writes[1][1] = HIDE_CURSOR
        /\ (opt.hideCursor /\ r.writes # <<>> /\ r.path \notin {"finish", "finishFinal"}) =>
               r.st.cursorHidden
        /\ ~opt.hideCursor => (~Emits(r.writes, "HIDE") /\ ~Emits(r.writes, "SHOW"))

\* after a finish() the cursor is shown again, and the next render() that
\* writes hides it a second time
C10_Witness ==
    /\ opt.hideCursor
    /\ everHid
    /\ ~cursorHidden
    /\ cursorSeen = "SHOW"
    /\ \E x \in Texts : Emits(RenderCall(opt, EngineState, x).writes, "HIDE")

\* C2: in normal mode with every line no wider than the terminal, after any
\* sequence of calls the terminal shows exactly the rows of the retained
\* frame, with its cursor cursorRow rows below the top of the live region.
C2_TerminalShowsFrame == Shows(term, previousLines, cursorRow)

\* C11: finish() without an argument writes exactly the show-cursor sequence
\* when the cursor is hidden and nothing otherwise, and leaves the retained
\* frame, heights, cursorRow, previous text and overflow latch unchanged;
\* with hideCursor disabled and no call made before, it writes nothing.
C11_FinishRestoresCursor ==
    LET r == FinishCall(opt, EngineState)
    IN  /\ r.writes = (IF cursorHidden THEN << <<SHOW_CURSOR>> >> ELSE <<>>)
        /\ r.notified = <<>>
        /\ r.st.previousLines = previousLines
        /\ r.st.previousLineHeights = previousLineHeights
        /\ r.st.cursorRow = cursorRow
        /\ r.st.previousRenderedRaw = previousRenderedRaw
        /\ r.st.overflowed = overflowed
        /\ r.st.overflowNotified = overflowNotified
        /\ (~opt.hideCursor /\ EngineState = InitialState) => r.writes = <<>>

\* a finish() has shown the cursor again over a drawn frame, and a second
\* finish() would write nothing
C11_Witness ==
    /\ cursorSeen = "SHOW"
    /\ everHid
    /\ ~cursorHidden
    /\ cursorRow > 0
    /\ FinishCall(opt, EngineState).writes = <<>>

\* C12: finish(final) always makes one full repaint of the whole frame of
\* renderFrame(final): cursor-up by the current cursorRow, carriage return,
\* clear to end of screen, then every logical line, whatever tailRows,
\* maxRows, the overflow latch and the retained frame are; the show-cursor
\* write, if any, comes after the repaint write.
C12_FinalFullRepaint ==
    \A x \in Texts :
        LET r == FinishFinalCall(opt, EngineState, x)
            repaint ==
                (IF opt.hideCursor /\ ~cursorHidden THEN <<HIDE_CURSOR>> ELSE <<>>)
                \o (IF opt.synchronizedOutput THEN <<BSU>> ELSE <<>>)
                \o (IF cursorRow > 0
                    THEN <<[k |-> "UP", n |-> cursorRow, c |-> ""], CR>>
                    ELSE <<CR>>)
                \o <<CLEAR_TO_END>>
                \o RowBytes(LinesOf(x), 0)
                \o (IF opt.synchronizedOutput THEN <<ESU>> ELSE <<>>)
        IN  /\ r.writes = <<repaint>> \o (IF opt.hideCursor THEN << <<SHOW_CURSOR>> >> ELSE <<>>)
            /\ r.st.previousLines = LinesOf(x)
            /\ r.st.previousLineHeights = HeightsOf(x, opt.width)
            /\ r.st.cursorRow = TotalRowsOf(x, opt.width)

\* a finish(final) in tail mode left a frame of more lines than the tail
\* window (render() retains the window only), and the same frame can be
\* given to finish(final) again
C12_Witness ==
    /\ opt.tailRows # 0
    /\ Len(previousLines) > opt.tailRows
    /\ cursorRow > 0
    /\ \E x \in Texts : LinesOf(x) = previousLines

\* the cursor-up distances in the chunks wr
UpMoves(wr) ==
    UNION {{wr[i][j].n : j \in {k \in 1..Len(wr[i]) : wr[i][k].k = "UP"}} :
              i \in 1..Len(wr)}

\* C13: no write made while cursorRow is 0 holds a cursor-up sequence, so the
\* first render() of an engine never moves the cursor up; every cursor-up
\* sequence written by any call moves by N rows with 1 <= N <= the cursorRow
\* held before the call.
C13_CursorUpBounded ==
    \A r \in NextCalls :
        /\ \A n \in UpMoves(r.writes) : 1 <= n /\ n <= cursorRow
        /\ cursorRow = 0 => ~Emits(r.writes, "UP")

\* with a frame of two rows or more drawn, a render() can move the cursor
\* up by fewer rows than cursorRow
C13_Witness ==
    /\ Len(previousLines) >= 2
    /\ cursorRow >= 2
    /\ \E x \in Texts :
           LET r == RenderCall(opt, EngineState, x)
           IN  r.path = "partial" /\ \E n \in UpMoves(r.writes) : n < cursorRow

\* the kinds of token that move the cursor, clear, or are row content
Payload == {"UP", "DOWN", "CR", "LF", "ED0", "ED2", "ED3", "HOME", "CH"}

\* a chunk with one begin marker and one end marker, the end marker last and
\* every payload token after the begin marker
SyncFramed(chunk) ==
    /\ CountIn(chunk, "BSU", 1) = 1
    /\ CountIn(chunk, "ESU", 1) = 1
    /\ chunk[Len(chunk)] = ESU
    /\ \A j \in 1..Len(chunk) :
           chunk[j].k \in Payload => \E b \in 1..(j - 1) : chunk[b] = BSU

\* C14: with synchronizedOutput every write of render() and the repaint write
\* of finish(final) holds exactly one begin marker and one end marker, with
\* all cursor movement, clearing and row content between them and the end
\* marker last; without synchronizedOutput no write holds either marker.
C14_SynchronizedFraming ==
    /\ opt.synchronizedOutput =>
           \A x \in Texts :
               /\ \A i \in 1..Len(RenderCall(opt, EngineState, x).writes) :
                      SyncFramed(RenderCall(opt, EngineState, x).writes[i])
               /\ SyncFramed(FinishFinalCall(opt, EngineState, x).writes[1])
    /\ ~opt.synchronizedOutput =>
           \A r \in NextCalls : ~Emits(r.writes, "BSU") /\ ~Emits(r.writes, "ESU")

\* with synchronizedOutput a frame is drawn that an append and a partial
\* redraw can follow, and that finish(final) can repaint
C14_Witness ==
    /\ opt.synchronizedOutput
    /\ cursorRow > 0
    /\ \E x \in Texts : RenderCall(opt, EngineState, x).path = "append"
                          /\ RenderCall(opt, EngineState, x).writes # <<>>
    /\ \E x \in Texts : RenderCall(opt, EngineState, x).path = "partial"

\* the frame render(x) is to draw: the logical lines, or the tail window
FrameOf(x) == NextLines(opt, Rendered(RenderFrame(x)), LinesOf(x))

\* short is long with one or more trailing rows removed
IsStrictPrefix(short, long) ==
    Len(short) < Len(long) /\ short = SubSeq(long, 1, Len(short))

\* C15: when the new frame is the retained frame with one or more trailing
\* rows removed, render() makes one write that holds a clear-to-end-of-screen
\* sequence and no row content (the removed rows are not written, and no row
\* of the new frame changed).  Stated for an engine without maxRows, where no
\* overflow and no viewport repaint can interfere.
C15_ShrinkClears ==
    opt.maxRows = 0 =>
        \A x \in Texts :
            IsStrictPrefix(FrameOf(x), previousLines) =>
                LET r == RenderCall(opt, EngineState, x)
                IN  /\ Len(r.writes) = 1
                    /\ Emits(r.writes, "ED0")
                    /\ ~Emits(r.writes, "CH")

\* the paths of a call that ended with a callback throwing
Threw == {"threw:renderFrame", "threw:onOverflow", "threw:write", "threw:show"}

\* C16: if renderFrame, onOverflow or the write sink throws during a render()
\* or finish() call, every field of the engine state (retained frame,
\* heights, cursorRow, cursor-hidden flag, overflow latch, previous rendered
\* text) has the value it had before the call.
C16_AllOrNothing == [][path' \in Threw => EngineState' = EngineState]_vars

\* C17 as stated: whenever a render() call makes no write, every field of the
\* engine state, the overflow latch included, is unchanged and onOverflow was
\* not called, in every mode.
C17_NoWriteNoChange ==
    \A x \in Texts :
        LET r == RenderCall(opt, EngineState, x)
        IN  r.writes = <<>> => (r.st = EngineState /\ r.notified = <<>>)

\* C17, amended: whenever a render() call makes no write and does not latch
\* overflow, every field of the engine state is unchanged and onOverflow was
\* not called.  (The call that latches overflow may write nothing, when no
\* clear, marker or hide-cursor sequence is due; it still sets the latch and
\* calls onOverflow.)
C17_NoWriteNoChangeUnlessLatching ==
    \A x \in Texts :
        LET r == RenderCall(opt, EngineState, x)
        IN  (r.writes = <<>> /\ r.st.overflowed = overflowed) =>
                (r.st = EngineState /\ r.notified = <<>>)

\* a latched tail-mode engine with a frame drawn finds nothing to redraw
C17_Witness ==
    /\ cursorRow > 0
    /\ opt.tailRows # 0
    /\ overflowed
    /\ \E x \in Texts :
           LET r == RenderCall(opt, EngineState, x)
           IN  r.path = "noop" /\ r.writes = <<>>

\* C18: when the retained frame and the new frame have different lengths and
\* agree on every row of the shorter one, the differ reports the first index
\* past the shorter frame as changed, never "no change", also when the extra
\* rows are empty strings.
C18_DifferSeesLength ==
    \A x \in Texts :
        (/\ previousLines # <<>>
         /\ \/ IsStrictPrefix(FrameOf(x), previousLines)
            \/ IsStrictPrefix(previousLines, FrameOf(x))) =>
            FirstChanged(previousLines, FrameOf(x)) = Min(Len(previousLines), Len(FrameOf(x)))

\* C19: on the transition into overflow outside tail mode, the write holds
\* the clear-scrollback-screen-and-home sequence exactly when
\* clearScrollbackOnOverflow is set; otherwise, with clearOnOverflow, it moves
\* up cursorRow rows, returns to column 0 and clears to the end of the
\* screen; in every case it holds no row content, the retained frame becomes
\* empty and cursorRow 0.  The scrollback clear is written at most once in
\* the life of an engine: only by a call that latches overflow, one time.
C19_OverflowClears ==
    /\ \A x \in Texts :
           LET r == RenderCall(opt, EngineState, x)
               clear == IF opt.clearScrollbackOnOverflow
                        THEN <<Ctl("ED3"), Ctl("ED2"), Ctl("HOME")>>
                        ELSE IF opt.clearOnOverflow
                        THEN (IF cursorRow > 0
                              THEN <<[k |-> "UP", n |-> cursorRow, c |-> ""], CR>>
                              ELSE <<CR>>) \o <<CLEAR_TO_END>>
                        ELSE <<>>
               frame == (IF opt.hideCursor /\ ~cursorHidden THEN <<HIDE_CURSOR>> ELSE <<>>)
                        \o (IF opt.synchronizedOutput THEN <<BSU>> ELSE <<>>)
                        \o clear
                        \o (IF opt.synchronizedOutput THEN <<ESU>> ELSE <<>>)
           IN  (opt.tailRows = 0 /\ ~overflowed /\ r.st.overflowed) =>
                   /\ r.writes = (IF frame # <<>> THEN <<frame>> ELSE <<>>)
                   /\ Emits(r.writes, "ED3") <=> opt.clearScrollbackOnOverflow
                   /\ ~Emits(r.writes, "CH")
                   /\ r.st.previousLines = <<>>
                   /\ r.st.previousLineHeights = <<>>
                   /\ r.st.cursorRow = 0
    /\ \A r \in NextCalls :
           /\ Count(r.writes, "ED3", 1) <= 1
           /\ Emits(r.writes, "ED3") => (~overflowed /\ r.st.overflowed)

\* the overflow transition cleared the scrollback below a frame drawn before
C19_Witness ==
    /\ overflowed
    /\ opt.tailRows = 0
    /\ opt.clearScrollbackOnOverflow
    /\ overflowCalls = 1
    /\ previousLines = <<>>
    /\ previousRenderedRaw # <<>>

\* C20: in tail mode with maxRows smaller than tailRows, the render() that
\* latches overflow still draws the windowed frame (as a full repaint when a
\* clear strategy is configured), and every later render() whose windowed
\* frame differs from the retained frame still writes.
C20_TailKeepsDrawing ==
    (opt.tailRows # 0 /\ opt.maxRows # 0 /\ opt.maxRows < opt.tailRows) =>
        \A x \in Texts :
            LET r == RenderCall(opt, EngineState, x)
            IN  /\ (~overflowed /\ r.st.overflowed) =>
                       /\ r.st.previousLines = FrameOf(x)
                       /\ (opt.clearOnOverflow \/ opt.clearScrollbackOnOverflow) =>
                              r.path = "full"
                /\ (r.st.overflowed /\ FrameOf(x) # previousLines) => r.writes # <<>>

\* the number of line feeds of a text
RECURSIVE LineFeeds(_, _)
LineFeeds(text, i) ==
    IF i > Len(text) THEN 0
    ELSE (IF text[i] = "\n" THEN 1 ELSE 0) + LineFeeds(text, i + 1)

\* every logical line of the rendered text is at most `width` columns wide
AllLinesFit(rendered, width) ==
    \A k \in 1..Len(RawLines(rendered)) : VisibleWidth(RawLines(rendered)[k]) <= width

\* C21: for a rendered text whose every logical line has display width at
\* most the configured width, the rows the engine accounts for are as many as
\* the logical lines of the text (one per line feed of the rendered text):
\* the total of the per-line heights in normal mode, and the number of rows
\* the Row Splitter returns in tail mode.
C21_RowCount ==
    (splitter.pc = "done" /\ AllLinesFit(splitter.text, splitter.width)) =>
        /\ TotalRowsOf(splitter.text, splitter.width) = LineFeeds(splitter.text, 1)
        /\ Len(splitter.rows) = LineFeeds(splitter.text, 1)

\* a run over two lines that fit, one of them as wide as the terminal and
\* one holding an escape sequence
C21_Witness ==
    /\ splitter.pc = "done"
    /\ AllLinesFit(splitter.text, splitter.width)
    /\ Len(splitter.lines) = 2
    /\ \E k \in 1..2 : VisibleWidth(splitter.lines[k]) = splitter.width
    /\ \E k \in 1..2 : \E j \in 1..Len(splitter.lines[k]) : splitter.lines[k][j] = "ESC"

\* the loop of the Row Splitter is at an escape sequence
AtAnsi ==
    /\ splitter.pc = "loop"
    /\ splitter.i <= Len(SplitterLine)
    /\ ExtractAnsiToken(SplitterLine, splitter.i).isAnsi

AnsiToken == ExtractAnsiToken(SplitterLine, splitter.i).token

\* a style-setting sequence: ESC [ parameters m
IsSgr(tok) == Len(tok) >= 3 /\ tok[1] = "ESC" /\ tok[2] = "[" /\ tok[Len(tok)] = "m"

\* the parameters of a style-setting sequence, separated by ";"
SgrCodes(tok) == SplitCodes(SubSeq(tok, 3, Len(tok) - 1), 1, <<>>)
EmptyParams(tok) == Len(tok) = 3
HasReset(tok) == \E k \in 1..Len(SgrCodes(tok)) : SgrCodes(tok)[k] = <<"0">>
HasNonReset(tok) == \E k \in 1..Len(SgrCodes(tok)) : SgrCodes(tok)[k] # <<"0">>

\* C22 as stated: a style-setting sequence whose parameter list is empty or
\* contains a reset code empties the active style, also when it carries
\* further codes; every other style-setting sequence is appended to the
\* active style; any other escape sequence leaves it unchanged.
C22_ResetClears ==
    [][AtAnsi =>
          splitter'.activeSgr =
              IF ~IsSgr(AnsiToken) THEN splitter.activeSgr
              ELSE IF EmptyParams(AnsiToken) \/ HasReset(AnsiToken) THEN <<>>
              ELSE splitter.activeSgr \o AnsiToken]_vars

\* C22 amended: a style-setting sequence whose parameter list is empty or
\* holds reset codes only empties the active style; one that holds a reset
\* code together with other codes replaces the active style by itself; every
\* other style-setting sequence is appended to the active style; any other
\* escape sequence leaves it unchanged.
C22_ResetRestarts ==
    [][AtAnsi =>
          splitter'.activeSgr =
              IF ~IsSgr(AnsiToken) THEN splitter.activeSgr
              ELSE IF EmptyParams(AnsiToken) THEN <<>>
              ELSE IF HasReset(AnsiToken)
              THEN (IF HasNonReset(AnsiToken) THEN AnsiToken ELSE <<>>)
              ELSE splitter.activeSgr \o AnsiToken]_vars

\* a sequence with a reset code and a further code was seen while a style
\* was active
C22_Witness ==
    /\ splitter.current = <<"ESC", "[", "1", "m", "ESC", "[", "0", ";", "1", "m">>
    /\ splitter.activeSgr = <<"ESC", "[", "0", ";", "1", "m">>

\* the least element of a non-empty set of numbers
Least(S) == CHOOSE j \in S : \A m \in S : j <= m

\* the positions after ESC [ at p that hold a byte of the range @ to ~
CsiFinals(s, p) == {j \in (p + 2)..Len(s) : s[j] \in FinalBytes}

\* the positions after ESC ] at p where BEL or ESC \ begins
OscTerminators(s, p) ==
    {j \in (p + 2)..Len(s) :
        s[j] = "BEL" \/ (s[j] = "ESC" /\ j + 1 <= Len(s) /\ s[j + 1] = "\\")}

\* where the token that begins with the ESC at p is to end (the index after
\* its last code unit)
TokenEnd(s, p) ==
    IF p + 1 <= Len(s) /\ s[p + 1] = "["
    THEN (IF CsiFinals(s, p) = {} THEN Len(s) + 1 ELSE Least(CsiFinals(s, p)) + 1)
    ELSE IF p + 1 <= Len(s) /\ s[p + 1] = "]"
    THEN (IF OscTerminators(s, p) = {} THEN Len(s) + 1
          ELSE LET j == Least(OscTerminators(s, p))
               IN  IF s[j] = "BEL" THEN j + 1 ELSE j + 2)
    ELSE IF p + 1 <= Len(s) THEN p + 2
    ELSE p + 1

\* the tokenizer on the string s at every index that holds ESC
TokensTotal(s) ==
    \A p \in 1..Len(s) :
        s[p] = "ESC" =>
            LET ansi == ExtractAnsiToken(s, p)
            IN  /\ ansi.isAnsi
                /\ ansi.token # <<>>
                /\ ansi.nextIndex > p
                /\ ansi.nextIndex <= Len(s) + 1
                /\ ansi.nextIndex = TokenEnd(s, p)
                /\ ansi.token = SubSeq(s, p, ansi.nextIndex - 1)

\* C23: on the whole text and on each of its lines, at every index holding
\* ESC the tokenizer returns a non-empty token and a next index beyond the
\* index and at most the length of the string: a CSI token ends at the first
\* byte of the range @ to ~ after ESC [, an OSC token at the first BEL or
\* ESC \ after ESC ], any other ESC pair is two characters, and a sequence
\* without terminator runs to the end of the string.  The width measurement
\* of every line returns, and a run of the Row Splitter that has begun ends.
C23_TokenizerTotal ==
    /\ [](/\ TokensTotal(splitter.text)
          /\ \A k \in 1..Len(splitter.lines) :
                 /\ TokensTotal(splitter.lines[k])
                 /\ VisibleWidth(splitter.lines[k]) \in 0..(2 * Len(splitter.lines[k])))
    /\ (splitter.pc = "loop") ~> (splitter.pc = "done")

\* a run has ended over a line that holds an OSC sequence without terminator
\* and with a payload
C23_Witness ==
    /\ splitter.pc = "done"
    /\ \E k \in 1..Len(splitter.lines) : \E p \in 1..Len(splitter.lines[k]) :
           /\ splitter.lines[k][p] = "ESC"
           /\ p + 2 <= Len(splitter.lines[k])
           /\ splitter.lines[k][p + 1] = "]"
           /\ OscTerminators(splitter.lines[k], p) = {}

\* the index of the last line break (LF, or CR, which push turns into LF) of
\* a delta; 0 when it holds none
LastBreak(delta) ==
    IF \A j \in 1..Len(delta) : delta[j] \notin {"\n", "\r"} THEN 0
    ELSE CHOOSE j \in 1..Len(delta) :
             /\ delta[j] \in {"\n", "\r"}
             /\ \A m \in (j + 1)..Len(delta) : delta[m] \notin {"\n", "\r"}

\* the delta up to its last line break, and the text after it
CompleteLines(delta) == SubSeq(delta, 1, LastBreak(delta))
AfterLastBreak(delta) == SubSeq(delta, LastBreak(delta) + 1, Len(delta))

\* C24: in every reachable state, push(delta) returns and renders what the
\* push of the complete lines of the delta does, and keeps the text after
\* the last line break at the end of the buffer, which never holds a
\* complete line; so a delta without line break returns the empty string
\* and changes the buffer only, and the empty delta changes nothing.
C24_LineBuffering ==
    \A delta \in Deltas \cup {<<>>} :
        \A whole \in {PushCall(spacing, streamer, delta)},
           lines \in {PushCall(spacing, streamer, CompleteLines(delta))} :
            /\ whole.out = lines.out
            /\ whole.rendered = lines.rendered
            /\ whole.st = [lines.st EXCEPT !.buffer = @ \o AfterLastBreak(delta)]
            /\ ~Includes(whole.st.buffer, "\n")
            /\ LastBreak(delta) = 0 =>
                   /\ whole.out = <<>>
                   /\ whole.rendered = <<>>
                   /\ whole.st = [streamer EXCEPT !.buffer = @ \o delta]

\* a push returned the output of a complete line and kept the text after it
C24_Witness ==
    /\ lastCall.op = "push"
    /\ LastBreak(lastCall.delta) \in 1..(Len(lastCall.delta) - 1)
    /\ lastCall.out # <<>>
    /\ streamer.buffer = AfterLastBreak(lastCall.delta)

\* the lines the claims about single lines are stated for, without their
\* newline: text, blank lines, table lines and fence lines
StreamLines ==
    {<<>>, <<" ">>, <<"a">>, <<"|", "a">>, <<"-", "|", "-">>,
     <<"BT", "BT", "BT">>, <<"BT", "BT", "BT", "a">>, <<" ", "BT", "BT", "BT">>,
     <<"BT", "BT", "BT", "BT">>, <<"~", "~", "~">>, <<"~", "~", "~", "a">>,
     <<"BT", "BT", "BT", "|", "a">>}

\* the lines of a buffered block, each of which ends with a newline
BlockLines(block) == PopTrailingEmpty(Split(block))

\* the line opens a fenced code block: a run of three or more backticks or
\* of three or more tildes, after white space at most
OpensFence(line) ==
    \E c \in {"BT", "~"} : RunLength(TrimStart(line), c) >= 3

\* the line starts with the token of the open fence
StartsWithFence(line, fence) == RunLength(TrimStart(line), fence.char) >= fence.len

\* C25: a line that opens a fenced code block outside a fence (and is not a
\* row of an open table) leaves the fence open with the line buffered, and
\* none of the fragments rendered by that push holds it; while the fence is open its buffer begins with the
\* opening line, a line that does not start with the fence token is buffered
\* and push returns the empty string, and a line that starts with the fence
\* token has the buffered block and that line rendered as one fragment and
\* nothing else.
C25_FenceBuffered ==
    /\ streamer.fence # NoFence =>
           /\ Len(BlockLines(streamer.fenceBuffer)) >= 1
           /\ OpensFence(BlockLines(streamer.fenceBuffer)[1])
           /\ StartsWithFence(BlockLines(streamer.fenceBuffer)[1], streamer.fence)
    /\ \A l \in StreamLines :
           \A r \in {PushCall(spacing, streamer, WithNewline(l))} :
               LET line == streamer.buffer \o l
               IN  IF streamer.fence = NoFence
                   THEN (OpensFence(line)
                             /\ ~(streamer.inTable /\ LooksLikeTableRow(line))) =>
                            /\ r.st.fence # NoFence
                            /\ r.st.fenceBuffer = WithNewline(line)
                            /\ \A k \in 1..Len(r.rendered) :
                                   r.rendered[k] \in {streamer.heldTableHeader,
                                                      streamer.tableBuffer}
                   ELSE IF StartsWithFence(line, streamer.fence)
                   THEN /\ r.rendered = <<streamer.fenceBuffer \o WithNewline(line)>>
                        /\ r.st.fence = NoFence
                        /\ r.st.fenceBuffer = <<>>
                   ELSE /\ r.out = <<>>
                        /\ r.rendered = <<>>
                        /\ r.st.fence = streamer.fence
                        /\ r.st.fenceBuffer = streamer.fenceBuffer \o WithNewline(line)

\* what a push returns for a fragment it has rendered
FragmentOutput(markdown) == NormalizeRenderedFragment(RenderCallback(markdown))

\* the line holds a bar and a character that is neither a bar nor white
\* space: it can be the header or a row of a table
HasBarAndText(line) ==
    /\ \E j \in 1..Len(line) : line[j] = "|"
    /\ \E j \in 1..Len(line) : line[j] \notin {"|", " ", "\t", "\n", "\r"}

\* C26: outside a fence, (a) a line that looks like a table header is held
\* and is in no fragment that push renders; (b) a separator line after a held
\* header opens the table with both lines buffered, and push returns the
\* empty string; (c) a row of an open table is buffered and push returns the
\* empty string; (d) a blank line or a line that is no row ends the table:
\* the buffered table is the first fragment rendered and is rendered once,
\* its output comes first in what push returns, and the table is no longer
\* open.  An open table
\* holds a header, a separator and rows only.
C26_TableBuffered ==
    /\ streamer.inTable =>
           LET rows == BlockLines(streamer.tableBuffer)
           IN  /\ Len(rows) >= 2
               /\ HasBarAndText(rows[1])
               /\ IsTableSeparator(rows[2])
               /\ \A k \in 3..Len(rows) : HasBarAndText(rows[k])
    /\ streamer.fence = NoFence =>
           \A l \in StreamLines :
               \A r \in {PushCall(spacing, streamer, WithNewline(l))} :
                   LET line == streamer.buffer \o l
                   IN  IF streamer.inTable
                       THEN IF HasBarAndText(line)
                            THEN /\ r.out = <<>>
                                 /\ r.rendered = <<>>
                                 /\ r.st.inTable
                                 /\ r.st.tableBuffer =
                                        streamer.tableBuffer \o WithNewline(line)
                            ELSE /\ Len(r.rendered) >= 1
                                 /\ r.rendered[1] = streamer.tableBuffer
                                 /\ StartsWith(r.out, FragmentOutput(streamer.tableBuffer))
                                 /\ \A k \in 2..Len(r.rendered) :
                                        r.rendered[k] # streamer.tableBuffer
                                 /\ ~r.st.inTable
                       ELSE IF streamer.heldTableHeader # <<>> /\ IsTableSeparator(line)
                       THEN /\ r.out = <<>>
                            /\ r.rendered = <<>>
                            /\ r.st.inTable
                            /\ r.st.tableBuffer =
                                   WithNewline(streamer.heldTableHeader)
                                       \o WithNewline(line)
                       ELSE (HasBarAndText(line) /\ ~OpensFence(line)) =>
                                /\ r.st.heldTableHeader = line
                                /\ \A k \in 1..Len(r.rendered) :
                                       r.rendered[k] = streamer.heldTableHeader

\* a push ended a table of three lines with a line of text: the table was
\* rendered as one fragment, then the line
C26_Witness ==
    /\ lastCall.op = "push"
    /\ Len(lastCall.rendered) = 2
    /\ Len(BlockLines(lastCall.rendered[1])) = 3
    /\ IsTableSeparator(BlockLines(lastCall.rendered[1])[2])
    /\ lastCall.rendered[2] = <<"a">>
    /\ ~streamer.inTable

\* the lines pushed one after the other, each with its newline
RECURSIVE PushLines(_, _, _)
PushLines(sp, st, lines) ==
    IF lines = <<>> THEN Returned(st, <<>>, <<>>)
    ELSE LET first == PushCall(sp, st, WithNewline(Head(lines)))
         IN  AndThen(first, PushLines(sp, first.st, Tail(lines)))

\* what is returned for the fragments from the i-th on
RECURSIVE FragmentsOutput(_, _)
FragmentsOutput(rendered, i) ==
    IF i > Len(rendered) THEN <<>>
    ELSE FragmentOutput(rendered[i]) \o FragmentsOutput(rendered, i + 1)

\* n newlines
Newlines(n) == [k \in 1..n |-> "\n"]

\* the newlines a run of n blank lines after a fragment is to emit
SpacingOf(sp, n) == IF sp = "preserve" THEN n ELSE IF sp = "single" THEN 1 ELSE 0

\* the runs of blank lines tried: one blank line, or two
BlankRuns == {<< <<>> >>, << <<" ">>, <<>> >>}

\* C27: outside fences, (a) the push of a blank line returns the output of
\* the fragments it flushes followed by exactly one newline in preserve
\* mode, by nothing in tight mode and by at most one newline in single mode;
\* (b) when a line x that is not blank and opens no fence, a run of blank lines, a line y that
\* is not blank and finish() follow one another, what is returned is the
\* output of the fragments rendered up to the first blank line, then as many
\* newlines as blank lines in preserve mode, one newline in single mode and
\* none in tight mode, then the output of the fragments rendered after.
C27_Spacing ==
    streamer.fence = NoFence =>
        /\ \A b \in {<<>>, <<" ">>} :
               IsBlank(streamer.buffer \o b) =>
                   \A r \in {PushCall(spacing, streamer, WithNewline(b))} :
                       r.out \in
                           {FragmentsOutput(r.rendered, 1) \o Newlines(n) :
                                n \in IF spacing = "preserve" THEN {1}
                                      ELSE IF spacing = "single" THEN {0, 1} ELSE {0}}
        /\ \A x \in {<<"a">>, <<"|", "a">>, <<"-", "|", "-">>},
              y \in {<<"a">>, <<"|", "a">>}, blanks \in BlankRuns :
               ~OpensFence(streamer.buffer \o x) =>
               \A before \in {PushLines(spacing, streamer, <<x>> \o SubSeq(blanks, 1, 1))} :
                   \A after \in {AndThen(PushLines(spacing, before.st, Tail(blanks) \o <<y>>),
                                         StreamFinishCall(spacing,
                                             PushLines(spacing, before.st,
                                                       Tail(blanks) \o <<y>>).st, <<>>))} :
                       before.out \o after.out =
                           FragmentsOutput(before.rendered, 1)
                               \o Newlines(SpacingOf(spacing, Len(blanks)))
                               \o FragmentsOutput(after.rendered, 1)

\* in single mode a push of a blank line outside a fence returned nothing,
\* a newline having been returned for the run it belongs to
C27_Witness ==
    /\ spacing = "single"
    /\ lastCall.op = "push"
    /\ lastCall.delta = <<"\n">>
    /\ lastCall.out = <<>>
    /\ streamer.blankStreak = 1
    /\ streamer.fence = NoFence
    /\ streamer.buffer = <<>>

\* C28: in single spacing mode, when a streamer that is new or was just
\* reset is pushed one or two blank lines and then a line that is not blank,
\* and is finished, what push and finish return together is not empty and
\* does not start with a newline.
C28_LeadingBlanksDropped ==
    (spacing = "single" /\ lastCall.op \in {"new", "reset"}) =>
        \A blanks \in BlankRuns, y \in {<<"a">>, <<"|", "a">>} :
            \A pushed \in {PushLines(spacing, streamer, blanks \o <<y>>)} :
                \A r \in {AndThen(pushed, StreamFinishCall(spacing, pushed.st, <<>>))} :
                    r.out # <<>> /\ r.out[1] # "\n"

\* the line is one of the lines of a rendered fragment
InFragment(line, rendered) ==
    \E k \in 1..Len(rendered) :
        \E j \in 1..Len(PopTrailingEmpty(Split(rendered[k]))) :
            PopTrailingEmpty(Split(rendered[k]))[j] = line

\* a rendered fragment begins with the buffered block
BlockRendered(block, rendered) ==
    \E k \in 1..Len(rendered) : StartsWith(rendered[k], block)

PushThenFinish(sp, st, delta) ==
    AndThen(PushCall(sp, st, delta),
            StreamFinishCall(sp, PushCall(sp, st, delta).st, <<>>))

\* C30: in every reachable state reset() returns nothing, renders nothing
\* and leaves the variables of a streamer just created, so that nothing
\* buffered before is left to render; a push and a finish after it, and a
\* finish alone, return and render what they do on a new streamer with the
\* same spacing, and leave the same state.
C30_ResetIsFresh ==
    /\ lastCall.op = "reset" => streamer = NewStreamer
    /\ \A r \in {ResetCall(streamer)} :
           /\ r.out = <<>>
           /\ r.rendered = <<>>
           /\ r.st.buffer = <<>> /\ r.st.tableBuffer = <<>> /\ r.st.fenceBuffer = <<>>
           /\ r.st.heldTableHeader = <<>>
           /\ StreamFinishCall(spacing, r.st, <<>>)
                  = StreamFinishCall(spacing, NewStreamer, <<>>)
           /\ \A delta \in StreamPieces :
                  PushThenFinish(spacing, r.st, delta)
                      = PushThenFinish(spacing, NewStreamer, delta)

\* a streamer that held an open table, a part of a line and a streak of
\* blank lines has been reset
C30_Witness ==
    /\ lastCall.op = "reset"
    /\ lastCall.before.inTable
    /\ lastCall.before.buffer # <<>>
    /\ lastCall.before.blankStreak > 0
    /\ streamer = NewStreamer

\* the deltas the claims about line endings are stated for: carriage
\* returns and line feeds by themselves, paired, and next to text
CrDeltas ==
    {<<"\r">>, <<"\n">>, <<"a">>, <<"a", "\r">>, <<"\r", "\n">>, <<"\n", "a">>}

\* two deltas pushed one after the other
PushTwo(sp, st, d1, d2) ==
    AndThen(PushCall(sp, st, d1), PushCall(sp, PushCall(sp, st, d1).st, d2))

\* C31: in every reachable state and for all deltas d1 and d2 made of text,
\* carriage returns and line feeds, push(d1) followed by push(d2) returns,
\* renders and leaves what one push of d1 d2 with its line endings (CRLF,
\* lone CR) converted to LF does; so a CRLF whose CR ends d1 and whose LF
\* begins d2 is one line break.
C31_NewlinesNormalized ==
    \A d1 \in CrDeltas, d2 \in CrDeltas :
        \A two \in {PushTwo(spacing, streamer, d1, d2)},
           one \in {PushCall(spacing, streamer, NormalizeNewlines(d1 \o d2))} :
            /\ two.out = one.out
            /\ two.rendered = one.rendered
            /\ two.st = one.st

\* a chunk without the hide-cursor sequence and the markers of
\* synchronized output
Unframed(chunk) == SelectSeq(chunk, LAMBDA t : t.k \notin {"HIDE", "BSU", "ESU"})

\* the rows of `lines` from the 0-based index k on, each as CR, the row and
\* CR LF
RECURSIVE RowsWritten(_, _)
RowsWritten(lines, k) ==
    IF k >= Len(lines) THEN <<>>
    ELSE <<CR>> \o TextBytes(lines[k + 1]) \o <<CR, LF>> \o RowsWritten(lines, k + 1)

LinesDue(x) ==
    IF opt.tailRows # 0 THEN LastN(RowsOf(x, opt.width), opt.tailRows) ELSE LinesOf(x)

\* the height render(x) is to compare with maxRows
RowsDue(x, lines) ==
    IF opt.tailRows # 0 THEN Len(lines) ELSE TotalRowsOf(x, opt.width)

\* the path render(x) is to take, told from the options, the state and the
\* new text alone: `rows` is the height to draw and k the first row that
\* differs from the retained frame
PathDue(x, rows, k) ==
    LET latch == opt.maxRows # 0 /\ rows > opt.maxRows /\ ~overflowed
    IN  IF overflowed /\ opt.tailRows = 0 THEN "silent"
        ELSE IF opt.appendWhenPossible /\ opt.tailRows = 0 /\ previousRenderedRaw # <<>>
                /\ StartsWith(Rendered(RenderFrame(x)), previousRenderedRaw) THEN "append"
        ELSE IF latch /\ opt.tailRows = 0 THEN "overflow"
        ELSE IF Len(previousLines) = 0 THEN "full"
        ELSE IF latch /\ (opt.clearOnOverflow \/ opt.clearScrollbackOnOverflow) THEN "full"
        ELSE IF k = -1 THEN "noop"
        ELSE IF opt.maxRows # 0
                /\ SumRows(previousLineHeights, k) < Max(0, cursorRow - opt.maxRows)
        THEN "full"
        ELSE "partial"

\* what the write of a path holds: row content, clearing
HasRows(wr) == Emits(wr, "CH") \/ Emits(wr, "LF")
Clears(wr) == Emits(wr, "ED0") \/ Emits(wr, "ED2")

\* C34: every render() takes the one path its options, state and input call
\* for, out of silent, no-op, append, overflow clear, partial redraw and full
\* repaint, and does what that path alone does: the silent and the no-op
\* path write nothing, the append path writes at most once and neither moves
\* the cursor up nor clears, the overflow clear writes at most once and no
\* row, the two redraws write exactly once, clearing first.  So the sink is
\* called at most once by render().  finish() calls it at most once, with the
\* show-cursor sequence; finish(final) at most twice, first with the repaint
\* and then with the show-cursor sequence.
C34_OnePath ==
    /\ \A x \in Texts :
           \A r \in {RenderCall(opt, EngineState, x)}, lines \in {LinesDue(x)} :
               /\ \A rows \in {RowsDue(x, lines)}, k \in {FirstChanged(previousLines, lines)} :
                      r.path = PathDue(x, rows, k)
               /\ Len(r.writes) <= 1
               /\ r.path \in {"silent", "noop"} => r.writes = <<>>
               /\ r.path = "append" => ~Clears(r.writes) /\ ~Emits(r.writes, "UP")
               /\ r.path = "overflow" => ~HasRows(r.writes)
               /\ r.path \in {"partial", "full"} => Len(r.writes) = 1 /\ Clears(r.writes)
    /\ \A f \in {FinishCall(opt, EngineState)} :
           /\ Len(f.writes) <= 1
           /\ \A i \in 1..Len(f.writes) : f.writes[i] = <<SHOW_CURSOR>>
    /\ \A x \in Texts :
           \A f \in {FinishFinalCall(opt, EngineState, x)} :
               /\ Len(f.writes) \in {1, 2}
               /\ Clears(<<f.writes[1]>>) /\ ~Emits(<<f.writes[1]>>, "SHOW")
               /\ Len(f.writes) = 2 => f.writes[2] = <<SHOW_CURSOR>>

\* a frame taller than maxRows is on screen after an append: each path but
\* the silent one can be taken by the next render(), and finish(final) writes
\* twice
C34_Witness ==
    /\ opt.maxRows # 0
    /\ cursorRow > opt.maxRows
    /\ \A p \in {"append", "noop", "overflow", "partial", "full"} :
           \E x \in Texts : RenderCall(opt, EngineState, x).path = p
    /\ \E x \in Texts : Len(FinishFinalCall(opt, EngineState, x).writes) = 2

\* the active style after the text s from index i on, read from the style
\* `style`: every escape sequence updates it in turn
RECURSIVE StyleAfter(_, _, _)
StyleAfter(s, i, style) ==
    IF i > Len(s) THEN style
    ELSE LET ansi == ExtractAnsiToken(s, i)
         IN  IF ansi.isAnsi
             THEN StyleAfter(s, ansi.nextIndex, UpdateSgrState(style, ansi.token))
             ELSE StyleAfter(s, i + 1, style)

\* the rows from index j on hold `line`, of which `consumed` is in the rows
\* before: each row is the active style in force at its start followed by
\* the next part of the line.  The value is the index of the row after the
\* last row of the line, or 0 when the rows do not hold the line.
RECURSIVE LineEnds(_, _, _, _, _)
LineEnds(line, consumed, rows, j, style) ==
    IF j > Len(rows) THEN 0
    ELSE LET prefix == StyleAfter(consumed, 1, style)
             part == SliceFrom(rows[j], Len(prefix))
             upto == consumed \o part
         IN  IF ~StartsWith(rows[j], prefix) \/ ~StartsWith(line, upto) THEN 0
             ELSE IF upto = line THEN j + 1
             ELSE IF part = <<>> THEN 0
             ELSE LineEnds(line, upto, rows, j + 1, style)

\* the rows from index j on hold the lines from index k on, the style
\* `style` being active at the start of line k
RECURSIVE RowsHold(_, _, _, _, _)
RowsHold(lines, k, rows, j, style) ==
    IF k > Len(lines) THEN j = Len(rows) + 1
    ELSE LET next == LineEnds(lines[k], <<>>, rows, j, style)
         IN  /\ next # 0
             /\ RowsHold(lines, k + 1, rows, next, StyleAfter(lines[k], 1, style))

\* C35: when splitToRows has run, its rows are the logical lines in order,
\* each line cut into one row or more; every row begins with the active
\* style in force at its start (empty at the start of the text, carried
\* across wrap points and from line to line), and the rows of a line without
\* those prefixes, concatenated, are the line: nothing is lost, duplicated
\* or reordered.  The empty text gives one empty row.
C35_StyleCarried ==
    splitter.pc = "done" =>
        IF Len(splitter.lines) = 0 THEN splitter.rows = << <<>> >>
        ELSE RowsHold(splitter.lines, 1, splitter.rows, 1, <<>>)

\* a line that sets a style has been wrapped, and the row after the wrap
\* point begins with that style
C35_Witness ==
    /\ splitter.pc = "done"
    /\ Len(splitter.lines) = 1
    /\ Len(splitter.rows) >= 2
    /\ splitter.activeSgr # <<>>
    /\ StartsWith(splitter.rows[2], splitter.activeSgr)
    /\ Len(splitter.rows[2]) > Len(splitter.activeSgr)

\* the renderFrame outputs that do not end with a line feed and to which one
\* can be added
Unterminated == {x \in Texts : Len(x) < MaxLen /\ ~EndsWithNewline(x)}

\* every row of the chunk ends with CR LF: a line feed follows a carriage
\* return, and every character is followed by a line feed
RowsTerminated(chunk) ==
    \A j \in 1..Len(chunk) :
        /\ chunk[j].k = "LF" => (j > 1 /\ chunk[j - 1].k = "CR")
        /\ chunk[j].k = "CH" => \E m \in (j + 1)..Len(chunk) : chunk[m].k = "LF"

\* C36: in every reachable state, a renderFrame output r that does not end
\* with a line feed and r followed by a line feed have the same frame, and
\* render() and finish(final) make the same writes and leave the same
\* engine state for both; the empty output has a frame of one empty row
\* (in tail mode too), which a render() that draws it retains; and in every
\* write of render() each row ends with CR LF.
C36_TrailingNewline ==
    /\ LinesOf(<<>>) = << <<>> >>
    /\ RowsOf(<<>>, opt.width) = << <<>> >>
    /\ \A x \in Texts :
           \A r \in {RenderCall(opt, EngineState, x)} :
               /\ \A i \in 1..Len(r.writes) : RowsTerminated(r.writes[i])
               /\ (x = <<>> /\ r.path \in {"append", "partial", "full"}) =>
                      r.st.previousLines = << <<>> >>
               /\ x \in Unterminated =>
                      /\ LinesOf(x) = LinesOf(Append(x, "\n"))
                      /\ r = RenderCall(opt, EngineState, Append(x, "\n"))
                      /\ FinishFinalCall(opt, EngineState, x)
                             = FinishFinalCall(opt, EngineState, Append(x, "\n"))

\* a frame is on screen that render() redraws in part for an output without
\* its last line feed
C36_Witness ==
    /\ Len(previousLines) >= 2
    /\ \E x \in Unterminated :
           \A r \in {RenderCall(opt, EngineState, x)} :
               /\ r.path = "partial"
               /\ Len(r.st.previousLines) >= 2
               /\ r = RenderCall(opt, EngineState, Append(x, "\n"))

\* C37: with neither tailRows nor maxRows, after every sequence of render()
\* calls given to both, the engine with appendWhenPossible and the engine
\* without it hold the same retained frame, heights and cursorRow, and their
\* terminals show the same rows; and for a text that does not extend the
\* text rendered before, the next render() of both makes the same writes.
C37_AppendEquivalent ==
    /\ previousLines = twin.st.previousLines
    /\ previousLineHeights = twin.st.previousLineHeights
    /\ cursorRow = twin.st.cursorRow
    /\ term.rows = twin.term.rows
    /\ \A x \in Texts :
           ~(previousRenderedRaw # <<>>
                 /\ StartsWith(Rendered(RenderFrame(x)), previousRenderedRaw)) =>
               \A outs \in {RenderBoth(x)} : outs["append"].writes = outs["plain"].writes

\* C38: of the hide-cursor and show-cursor sequences an engine has written,
\* in order, the first is hide-cursor and no two of a kind follow each
\* other; the cursor-hidden flag is true exactly when the last of them is
\* hide-cursor; and after finish(), with or without a final text, the flag
\* is false.
C38_CursorBalance ==
    /\ cursorSeen \in {"none", "HIDE", "SHOW"}
    /\ cursorHidden <=> cursorSeen = "HIDE"
    /\ ~FinishCall(opt, EngineState).st.cursorHidden
    /\ \A final \in Texts : ~FinishFinalCall(opt, EngineState, final).st.cursorHidden

\* the cursor has been hidden and shown again by a finish() that left a
\* frame of two rows or more, and the next render() hides it once more
C38_Witness ==
    /\ cursorSeen = "SHOW"
    /\ ~cursorHidden
    /\ cursorRow >= 2
    /\ \E x \in Texts : Emits(RenderCall(opt, EngineState, x).writes, "HIDE")

\* the rows the Row Splitter makes of one logical line
RowsOfLine(line, width) == SplitLineToRows(line, <<>>, width).rows

\* C39: for every logical line and every width of at least 1, the height
\* that normal mode gives the line (the display width divided by the width,
\* rounded up, and at least 1) is the number of physical rows the Row
\* Splitter makes of it: line by line, and for a text of one line in the
\* rows of a finished run.
C39_HeightAgrees ==
    splitter.pc = "done" =>
        /\ \A k \in 1..Len(splitter.lines) :
               LineRowCount(splitter.lines[k], splitter.width)
                   = Len(RowsOfLine(splitter.lines[k], splitter.width))
        /\ Len(splitter.lines) = 1 =>
               LineRowCount(splitter.lines[1], splitter.width) = Len(splitter.rows)

\* the lines the inputs of C40 are made of: blank, text, table lines, a
\* fence with an info string and a bare fence
LfLines ==
    {<<>>, <<"a">>, <<"|", "a">>, <<"-", "|", "-">>,
     <<"BT", "BT", "BT", "a">>, <<"BT", "BT", "BT">>}

\* the most lines of an input
MaxLines == 3

\* the inputs with LF line endings: up to n lines, the last one with or
\* without its newline
RECURSIVE LfTextsOf(_)
LfTextsOf(n) ==
    IF n = 0 THEN {<<>>}
    ELSE LET shorter == LfTextsOf(n - 1)
         IN  shorter \cup {WithNewline(l) \o t : l \in LfLines, t \in shorter}
                     \cup {l : l \in LfLines}

LfTexts == LfTextsOf(MaxLines)

\* the lines of an input: the text between its newlines, and after the last
InputLines(text) == PopTrailingEmpty(Split(text))

\* the input lines from the i-th on that are to be rendered: the lines that
\* are not blank, and every line from one that opens a fence to the next
\* that starts with the token of that fence
RECURSIVE DueLines(_, _, _)
DueLines(lines, i, fence) ==
    IF i > Len(lines) THEN <<>>
    ELSE IF fence # NoFence
    THEN <<lines[i]>> \o DueLines(lines, i + 1,
                                  IF StartsWithFence(lines[i], fence) THEN NoFence ELSE fence)
    ELSE IF IsBlank(lines[i]) THEN DueLines(lines, i + 1, NoFence)
    ELSE <<lines[i]>> \o DueLines(lines, i + 1, IsFenceStart(lines[i]))

\* the lines of the fragments passed to render, from the i-th fragment on
RECURSIVE RenderedLines(_, _)
RenderedLines(rendered, i) ==
    IF i > Len(rendered) THEN <<>>
    ELSE BlockLines(rendered[i]) \o RenderedLines(rendered, i + 1)

\* the deltas that are cut in two in every reachable state
CutDeltas ==
    {<<"a", "\n">>, <<"\n", "a">>, <<"|", "a", "\n">>, <<"-", "|", "-", "\n">>,
     <<"BT", "BT", "BT", "a", "\n">>, <<"\n", "\n">>}

\* two pushes and finish()
PushTwoThenFinish(sp, st, d1, d2) ==
    LET pushed == PushTwo(sp, st, d1, d2)
    IN  AndThen(pushed, StreamFinishCall(sp, pushed.st, <<>>))

\* C40: for an input with LF line endings given to a new streamer and
\* followed by finish(), the lines of the fragments passed to render are,
\* in order and once each, the input lines that are not blank and the lines
\* inside fences; and however the input is cut into two deltas the same text
\* is returned and the same fragments are rendered.  In every reachable
\* state a delta pushed in two parts returns and renders what it does pushed
\* whole and leaves the same state, and finish(delta) does what push(delta)
\* and finish() do.
C40_OnceInOrder ==
    /\ lastCall.op = "new" =>
           \A t \in LfTexts :
               \A whole \in {PushThenFinish(spacing, streamer, t)} :
                   /\ RenderedLines(whole.rendered, 1) = DueLines(InputLines(t), 1, NoFence)
                   /\ \A cut \in 1..(Len(t) - 1) :
                          \A parts \in {PushTwoThenFinish(spacing, streamer, SubSeq(t, 1, cut),
                                                          SubSeq(t, cut + 1, Len(t)))} :
                              /\ parts.out = whole.out
                              /\ parts.rendered = whole.rendered
    /\ \A delta \in CutDeltas :
           \A whole \in {PushCall(spacing, streamer, delta)} :
               /\ \A cut \in 1..(Len(delta) - 1) :
                      PushTwo(spacing, streamer, SubSeq(delta, 1, cut),
                              SubSeq(delta, cut + 1, Len(delta))) = whole
               /\ StreamFinishCall(spacing, streamer, delta)
                      = AndThen(whole, StreamFinishCall(spacing, whole.st, <<>>))

====
